---- MODULE Spec2Model ----
(***************************************************************************)
(* Scraping orchestration of landingenie: IntelligentScraper.scrapeURL     *)
(* driving the fast back-end (FirecrawlService.scrapeWebsite, with its     *)
(* result cache and retry loop) and the deep back-end                      *)
(* (ApifyService.scrapeWebsite, with its job polling).                     *)
(*                                                                         *)
(* Strings that the code inspects (URLs, cache keys) are sequences of      *)
(* character codes, so toLowerCase, trim and includes are computed as the  *)
(* code computes them.  Page contents and error messages are opaque        *)
(* strings.  Time is Date.now() in milliseconds.                           *)
(***************************************************************************)
EXTENDS Integers, Sequences, FiniteSets, TLC

\* ------------------------------------------------------------------------
\* Bounds of the model
\* ------------------------------------------------------------------------
MaxRequests == 2
MaxTicks == 2
MaxPuts == 3
MaxItems == 3

\* ------------------------------------------------------------------------
\* Program constants
\* ------------------------------------------------------------------------
CACHE_TTL == 1000 * 60 * 30
maxRetries == 3
MaxCacheSize == 100
maxAttempts == 20
enableCache == TRUE

\* ------------------------------------------------------------------------
\* String helpers (String.prototype.toLowerCase / trim / includes)
\* ------------------------------------------------------------------------
WhiteSpace == {9, 10, 11, 12, 13, 32}

LowerChar(c) == IF c >= 65 /\ c <= 90 THEN c + 32 ELSE c

toLowerCase(s) == [i \in 1..Len(s) |-> LowerChar(s[i])]

RECURSIVE TrimStart(_)
TrimStart(s) ==
  IF s # <<>> /\ Head(s) \in WhiteSpace THEN TrimStart(Tail(s)) ELSE s

RECURSIVE TrimEnd(_)
TrimEnd(s) ==
  IF s # <<>> /\ s[Len(s)] \in WhiteSpace
  THEN TrimEnd(SubSeq(s, 1, Len(s) - 1))
  ELSE s

trim(s) == TrimEnd(TrimStart(s))

StartsWith(s, p) == Len(p) <= Len(s) /\ SubSeq(s, 1, Len(p)) = p

includes(s, p) ==
  \E i \in 1..(Len(s) - Len(p) + 1) : SubSeq(s, i, i + Len(p) - 1) = p

SomeIncluded(s, patterns) ==
  \E j \in 1..Len(patterns) : includes(s, patterns[j])

complexPlatforms ==
  <<
     <<115,104,111,112,105,102,121,46,99,111,109>>,  \* shopify.com
     <<99,108,105,99,107,102,117,110,110,101,108,115,46,99,111,109>>,  \* clickfunnels.com
     <<108,101,97,100,112,97,103,101,115,46,110,101,116>>,  \* leadpages.net
     <<115,113,117,97,114,101,115,112,97,99,101,46,99,111,109>>,  \* squarespace.com
     <<119,105,120,46,99,111,109>>,  \* wix.com
     <<119,101,98,102,108,111,119,46,105,111>>,  \* webflow.io
     <<115,97,109,99,97,114,116,46,99,111,109>>,  \* samcart.com
     <<116,104,114,105,118,101,99,97,114,116,46,99,111,109>>,  \* thrivecart.com
     <<103,117,109,114,111,97,100,46,99,111,109>>   \* gumroad.com
  >>

affiliateNetworks ==
  <<
     <<99,108,105,99,107,98,97,110,107,46,110,101,116>>,  \* clickbank.net
     <<104,111,112,46,99,108,105,99,107,98,97,110,107,46,110,101,116>>,  \* hop.clickbank.net
     <<106,118,122,111,111,46,99,111,109>>,  \* jvzoo.com
     <<119,97,114,114,105,111,114,112,108,117,115,46,99,111,109>>,  \* warriorplus.com
     <<99,111,109,109,105,115,115,105,111,110,45,106,117,110,99,116,105,111,110,46,99,111,109>>,  \* commission-junction.com
     <<99,106,46,99,111,109>>,  \* cj.com
     <<108,105,110,107,115,104,97,114,101,46,99,111,109>>,  \* linkshare.com
     <<115,104,97,114,101,97,115,97,108,101,46,99,111,109>>   \* shareasale.com
  >>

affiliateUrlMarkers ==
  <<
     <<97,102,102,105,108,105,97,116,101>>,  \* affiliate
     <<63,104,111,112,61>>,  \* ?hop=
     <<99,98,112,97,103,101,61>>,  \* cbpage=
     <<118,101,110,100,111,114,61>>   \* vendor=
  >>

affiliateIndicators ==
  <<
     <<99,108,105,99,107,98,97,110,107>>,  \* clickbank
     <<104,111,112,46,99,108,105,99,107,98,97,110,107>>,  \* hop.clickbank
     <<99,98,112,97,103,101>>,  \* cbpage
     <<97,102,102,105,108,105,97,116,101>>,  \* affiliate
     <<114,101,102,61>>,  \* ref=
     <<97,102,102,61>>,  \* aff=
     <<112,97,114,116,110,101,114,61>>,  \* partner=
     <<99,97,109,112,97,105,103,110,61>>,  \* campaign=
     <<108,101,97,100,112,97,103,101,115>>,  \* leadpages
     <<99,108,105,99,107,102,117,110,110,101,108,115>>,  \* clickfunnels
     <<115,104,111,112,105,102,121>>   \* shopify
  >>

UrlPlain == <<104,116,116,112,58,47,47,97,46,105,111>>  \* "http://a.io"
UrlPlainVariant == <<32,72,84,84,80,58,47,47,65,46,105,111,32>>  \* " HTTP://A.io "
UrlWix == <<104,116,116,112,58,47,47,120,46,119,105,120,46,99,111,109>>  \* "http://x.wix.com"
UrlHop == <<104,116,116,112,58,47,47,97,46,105,111,47,63,104,111,112,61,49>>  \* "http://a.io/?hop=1"
UrlMalformed == <<97,46,105,111>>  \* "a.io"
SchemeHttp == <<104,116,116,112,58,47,47>>  \* "http://"
SchemeHttps == <<104,116,116,112,115,58,47,47>>  \* "https://"

\* ------------------------------------------------------------------------
\* new URL(url): the inputs of the model are http(s) URLs or scheme-less
\* text, for which the WHATWG parser accepts exactly the strings that,
\* once stripped of surrounding white space, start with a scheme.
\* ------------------------------------------------------------------------
DropScheme(s) ==
  IF StartsWith(s, SchemeHttps) THEN SubSeq(s, Len(SchemeHttps) + 1, Len(s))
  ELSE IF StartsWith(s, SchemeHttp) THEN SubSeq(s, Len(SchemeHttp) + 1, Len(s))
  ELSE <<>>

HostEnd == {47, 63, 35, 58}

RECURSIVE TakeHost(_)
TakeHost(s) ==
  IF s = <<>> \/ Head(s) \in HostEnd THEN <<>>
  ELSE <<Head(s)>> \o TakeHost(Tail(s))

hostname(url) == TakeHost(DropScheme(toLowerCase(trim(url))))

IsWellFormed(url) == hostname(url) # <<>>

\* IntelligentScraper.analyzeURL, for a well-formed URL
isComplex(url) == SomeIncluded(hostname(url), complexPlatforms)

isAffiliate(url) ==
  \/ SomeIncluded(hostname(url), affiliateNetworks)
  \/ SomeIncluded(url, affiliateUrlMarkers)

\* variant: only the complex platforms are sent to Apify
recommendedServiceComplexOnly(url) ==
  IF isComplex(url) THEN "apify" ELSE "firecrawl"

recommendedService(url) ==
  IF isAffiliate(url) \/ isComplex(url) THEN "apify" ELSE "firecrawl"

reasoning(url) ==
  IF isAffiliate(url)
  THEN "Affiliate URL detected, using advanced extraction for sales pages"
  ELSE IF isComplex(url)
  THEN "Complex platform detected, needs full browser rendering"
  ELSE "Standard landing page, content extraction sufficient"

\* no URLAnalysis
NoURLAnalysis ==
  [done |-> FALSE, thrown |-> FALSE, url |-> <<>>, domain |-> <<>>,
   isComplex |-> FALSE, isAffiliate |-> FALSE, recommendedService |-> "",
   reasoning |-> ""]

\* the URLAnalysis of a URL; new URL(url) throws for a malformed one
analyzeURL(url) ==
  IF ~IsWellFormed(url)
  THEN [NoURLAnalysis EXCEPT !.done = TRUE, !.thrown = TRUE, !.url = url]
  ELSE [done |-> TRUE, thrown |-> FALSE, url |-> url,
        domain |-> hostname(url),
        isComplex |-> isComplex(url),
        isAffiliate |-> isAffiliate(url),
        recommendedService |-> recommendedService(url),
        reasoning |-> reasoning(url)]

\* FirecrawlService.analyzeURL (.isAffiliatePage)
isAffiliatePage(url) == SomeIncluded(toLowerCase(url), affiliateIndicators)

OtherService(s) == IF s = "firecrawl" THEN "apify" ELSE "firecrawl"

\* ------------------------------------------------------------------------
\* Values
\* ------------------------------------------------------------------------
NoData ==
  [src |-> "none", markdown |-> "", html |-> "", item |-> "",
   isAffiliatePage |-> FALSE]

Failure(msg) == [success |-> FALSE, error |-> msg, data |-> NoData]

\* the fallbackData of FirecrawlService.scrapeWebsite
PlaceholderMarkdown == "No content extracted"

FcData(markdown, html, affiliate) ==
  [src |-> "firecrawl", markdown |-> markdown, html |-> html, item |-> "",
   isAffiliatePage |-> affiliate]

ApData(item) ==
  [src |-> "apify", markdown |-> "", html |-> "", item |-> item,
   isAffiliatePage |-> FALSE]

Success(data) == [success |-> TRUE, error |-> "", data |-> data]

\* result.data?.raw || result.data, as IntelligentScraper reads it
RawOf(data) == [data EXCEPT !.isAffiliatePage = FALSE]

\* a page that carries extracted content (not empty, not the placeholder)
HasContent(data) ==
  \/ data.src = "firecrawl"
     /\ (data.markdown # "" \/ data.html # "")
     /\ data.markdown # PlaceholderMarkdown
  \/ data.src = "apify" /\ data.item # "{}"

\* ------------------------------------------------------------------------
\* Map<K, V> of JavaScript: entries in insertion order
\* ------------------------------------------------------------------------
MapKeys(m) == {m[j].key : j \in 1..Len(m)}

MapHas(m, k) == k \in MapKeys(m)

MapIndex(m, k) == CHOOSE j \in 1..Len(m) : m[j].key = k

MapGet(m, k) == m[MapIndex(m, k)].value

MapSet(m, k, v) ==
  IF MapHas(m, k)
  THEN [m EXCEPT ![MapIndex(m, k)] = [key |-> k, value |-> v]]
  ELSE Append(m, [key |-> k, value |-> v])

MapDelete(m, k) ==
  IF MapHas(m, k)
  THEN SubSeq(m, 1, MapIndex(m, k) - 1) \o SubSeq(m, MapIndex(m, k) + 1, Len(m))
  ELSE m

\* m.keys().next().value of a non-empty map
MapFirstKey(m) == m[1].key

\* ------------------------------------------------------------------------
\* FirecrawlService: caching methods
\* ------------------------------------------------------------------------
\* variant: the key is lowercased but not trimmed
getCacheKeyNoTrim(u) == toLowerCase(u)

getCacheKey(u) == trim(toLowerCase(u))

isCacheValid(timestamps, key, t) ==
  /\ enableCache
  /\ MapHas(timestamps, key)
  /\ MapGet(timestamps, key) # 0
  /\ t - MapGet(timestamps, key) < CACHE_TTL

\* <<>> stands for null, <<r>> for the cached result r
getCachedResult(c, timestamps, u, t) ==
  IF isCacheValid(timestamps, getCacheKey(u), t) /\ MapHas(c, getCacheKey(u))
  THEN <<MapGet(c, getCacheKey(u))>>
  ELSE <<>>

\* variant: on overflow the newest key is deleted instead of the first
setCachedResultEvictsNewest(c, timestamps, u, r, t) ==
  IF ~enableCache \/ ~r.success
  THEN [cache |-> c, cacheTimestamps |-> timestamps]
  ELSE LET key == trim(toLowerCase(u))
           c1 == MapSet(c, key, r)
           t1 == MapSet(timestamps, key, t)
       IN  IF Len(c1) > MaxCacheSize
           THEN [cache |-> MapDelete(c1, c1[Len(c1)].key),
                 cacheTimestamps |-> MapDelete(t1, c1[Len(c1)].key)]
           ELSE [cache |-> c1, cacheTimestamps |-> t1]

\* variant: on overflow the first key's timestamp is left behind
setCachedResultLeavesTimestamp(c, timestamps, u, r, t) ==
  IF ~enableCache \/ ~r.success
  THEN [cache |-> c, cacheTimestamps |-> timestamps]
  ELSE LET key == getCacheKey(u)
           c1 == MapSet(c, key, r)
           t1 == MapSet(timestamps, key, t)
       IN  IF Len(c1) > MaxCacheSize
           THEN [cache |-> MapDelete(c1, MapFirstKey(c1)),
                 cacheTimestamps |-> t1]
           ELSE [cache |-> c1, cacheTimestamps |-> t1]

\* variant: a key that is stored keeps its result
setCachedResultKeepsFirst(c, timestamps, u, r, t) ==
  IF ~enableCache \/ ~r.success
  THEN [cache |-> c, cacheTimestamps |-> timestamps]
  ELSE LET key == getCacheKey(u)
           c1 == IF MapHas(c, key) THEN c ELSE MapSet(c, key, r)
           t1 == MapSet(timestamps, key, t)
       IN  IF Len(c1) > MaxCacheSize
           THEN [cache |-> MapDelete(c1, MapFirstKey(c1)),
                 cacheTimestamps |-> MapDelete(t1, MapFirstKey(c1))]
           ELSE [cache |-> c1, cacheTimestamps |-> t1]

\* the two maps after setCachedResult(url, r) at time t
setCachedResult(c, timestamps, u, r, t) ==
  IF ~enableCache \/ ~r.success
  THEN [cache |-> c, cacheTimestamps |-> timestamps]
  ELSE LET key == getCacheKey(u)
           c1 == MapSet(c, key, r)
           t1 == MapSet(timestamps, key, t)
       IN  IF Len(c1) > MaxCacheSize
           THEN [cache |-> MapDelete(c1, MapFirstKey(c1)),
                 cacheTimestamps |-> MapDelete(t1, MapFirstKey(c1))]
           ELSE [cache |-> c1, cacheTimestamps |-> t1]

\* ------------------------------------------------------------------------
\* Arrays and strings of JavaScript used by the content analysis
\* ------------------------------------------------------------------------
Min(a, b) == IF a <= b THEN a ELSE b

\* F(v), where v is computed once however often F uses it
With(v, F(_)) == CHOOSE r \in {F(x) : x \in {v}} : TRUE

\* a.slice(0, n)
slice(a, n) == SubSeq(a, 1, Min(n, Len(a)))

\* s.substring(0, n)
substring(s, n) == SubSeq(s, 1, Min(n, Len(s)))

\* [...new Set(a)]: the first occurrence of every element, in order
RECURSIVE Unique(_, _)
Unique(a, seen) ==
  IF a = <<>> THEN <<>>
  ELSE IF Head(a) \in seen THEN Unique(Tail(a), seen)
  ELSE <<Head(a)>> \o Unique(Tail(a), seen \cup {Head(a)})

unique(a) == Unique(a, {})

\* a.map(line => line.trim())
TrimAll(a) == [j \in 1..Len(a) |-> trim(a[j])]

\* a.filter(Boolean) on an array of strings
NonEmpty(s) == s # <<>>

filterBoolean(a) == SelectSeq(a, NonEmpty)

\* s.split(sep) for a separator of one character: the pieces between the
\* positions of the separator
split(s, sep) ==
  LET IsSep(p) == s[p] = sep
      seps == SelectSeq([p \in 1..Len(s) |-> p], IsSep)
      cuts == <<0>> \o seps \o <<Len(s) + 1>>
  IN  [k \in 1..(Len(cuts) - 1) |-> SubSeq(s, cuts[k] + 1, cuts[k + 1] - 1)]

\* undefined, as a value that no string equals
Undefined == <<-1>>

\* a || b on strings and undefined
OrElse(a, b) == IF a = <<>> \/ a = Undefined THEN b ELSE a

\* ------------------------------------------------------------------------
\* Regular expressions of JavaScript.  An expression is a tree of nodes; a
\* match state x holds the position reached (x.e, the index of the next
\* character) and the bounds of capture group 1 (x.gs, x.ge; 0 when unset).
\* Run lists the ways an expression matches from a state in the order in
\* which the backtracking matcher tries them, so its first element is the
\* match that JavaScript reports.  For the i flag the expression is written
\* in lower case and run on the lowercased text.
\* ------------------------------------------------------------------------
LineTerminators == {10, 13}

WordChars == (48..57) \cup (65..90) \cup (97..122) \cup {95}

Digits == 48..57

RxSet(S) == [op |-> "set", set |-> S]
RxNot(S) == [op |-> "nset", set |-> S]
RxAny == RxNot(LineTerminators)
RxCat(parts) == [op |-> "cat", parts |-> parts]
RxAlt(parts) == [op |-> "alt", parts |-> parts]
RxRep(r, lo, hi) == [op |-> "rep", of |-> r, lo |-> lo, hi |-> hi, greedy |-> TRUE]
RxLazy(r, lo, hi) == [op |-> "rep", of |-> r, lo |-> lo, hi |-> hi, greedy |-> FALSE]
RxGroup(r) == [op |-> "grp", of |-> r]
RxBol == [op |-> "bol"]
RxEol == [op |-> "eol"]
RxBolM == [op |-> "bolm"]
RxEolM == [op |-> "eolm"]
RxWordB == [op |-> "wb"]
RxStr(s) == RxCat([j \in 1..Len(s) |-> RxSet({s[j]})])

\* the upper bound of *, + and {n,}
Unbounded == -1

IsWordAt(s, p) == p >= 1 /\ p <= Len(s) /\ s[p] \in WordChars

\* a node that matches one character
IsChar(re) == re.op \in {"set", "nset"}

Accepts(re, c) == IF re.op = "set" THEN c \in re.set ELSE c \notin re.set

\* how many characters from position p on a one-character node accepts,
\* counting from n and up to limit
RECURSIVE RunLength(_, _, _, _, _)
RunLength(re, s, p, n, limit) ==
  IF n < limit /\ Accepts(re, s[p + n])
  THEN RunLength(re, s, p, n + 1, limit)
  ELSE n

RECURSIVE Run(_, _, _)
RECURSIVE RunEach(_, _, _, _)
RECURSIVE RunCat(_, _, _, _)
RECURSIVE RunAlt(_, _, _, _)
RECURSIVE RunRep(_, _, _, _)
RECURSIVE RunRepEach(_, _, _, _, _)

\* the results of expression re from every state of xs, in order
RunEach(re, s, xs, j) ==
  IF j > Len(xs) THEN <<>>
  ELSE Run(re, s, xs[j]) \o RunEach(re, s, xs, j + 1)

RunCat(parts, j, s, xs) ==
  IF j > Len(parts) \/ xs = <<>> THEN xs
  ELSE With(RunEach(parts[j], s, xs, 1),
            LAMBDA ys : RunCat(parts, j + 1, s, ys))

RunAlt(parts, j, s, x) ==
  IF j > Len(parts) THEN <<>>
  ELSE Run(parts[j], s, x) \o RunAlt(parts, j + 1, s, x)

RunRepEach(re, n, s, xs, j) ==
  IF j > Len(xs) THEN <<>>
  ELSE RunRep(re, n, s, xs[j]) \o RunRepEach(re, n, s, xs, j + 1)

\* n repetitions are done; an empty repetition is not taken again
RunRep(re, n, s, x) ==
  LET Advances(y) == y.e > x.e
      more == IF re.hi = Unbounded \/ n < re.hi
              THEN With(SelectSeq(Run(re.of, s, x), Advances),
                        LAMBDA ys : RunRepEach(re, n + 1, s, ys, 1))
              ELSE <<>>
      stop == IF n >= re.lo THEN <<x>> ELSE <<>>
  IN  IF re.greedy THEN more \o stop ELSE stop \o more

Run(re, s, x) ==
  CASE re.op = "set" ->
         IF x.e <= Len(s) /\ s[x.e] \in re.set
         THEN <<[x EXCEPT !.e = x.e + 1]>> ELSE <<>>
    [] re.op = "nset" ->
         IF x.e <= Len(s) /\ s[x.e] \notin re.set
         THEN <<[x EXCEPT !.e = x.e + 1]>> ELSE <<>>
    [] re.op = "cat" -> RunCat(re.parts, 1, s, <<x>>)
    [] re.op = "alt" -> RunAlt(re.parts, 1, s, x)
    [] re.op = "rep" ->
         IF IsChar(re.of)
         THEN \* the repetitions of one character: the longest run first
              \* when greedy, the shortest first when lazy
              LET room == Len(s) - x.e + 1
                  limit == IF re.hi = Unbounded THEN room
                           ELSE Min(re.hi, room)
                  Counts(most) ==
                    [j \in 1..(IF most < re.lo THEN 0 ELSE most - re.lo + 1)
                       |-> [x EXCEPT !.e = x.e + (IF re.greedy
                                                  THEN most - j + 1
                                                  ELSE re.lo + j - 1)]]
              IN  With(RunLength(re.of, s, x.e, 0, limit), Counts)
         ELSE RunRep(re, 0, s, x)
    [] re.op = "grp" ->
         LET Captured(rs) ==
               [j \in 1..Len(rs) |->
                  [rs[j] EXCEPT !.gs = x.e, !.ge = rs[j].e]]
         IN  With(Run(re.of, s, x), Captured)
    [] re.op = "bol" -> IF x.e = 1 THEN <<x>> ELSE <<>>
    [] re.op = "eol" -> IF x.e = Len(s) + 1 THEN <<x>> ELSE <<>>
    [] re.op = "bolm" ->
         IF x.e = 1 \/ s[x.e - 1] \in LineTerminators THEN <<x>> ELSE <<>>
    [] re.op = "eolm" ->
         IF x.e = Len(s) + 1 \/ s[x.e] \in LineTerminators
         THEN <<x>> ELSE <<>>
    [] re.op = "wb" ->
         IF IsWordAt(s, x.e - 1) # IsWordAt(s, x.e) THEN <<x>> ELSE <<>>

NoMatch == [found |-> FALSE, start |-> 0, end |-> 0, gs |-> 0, ge |-> 0]

\* the match of re in s that starts at position p, if there is one
MatchAt(re, s, p) ==
  LET First(rs) ==
        IF rs # <<>>
        THEN [found |-> TRUE, start |-> p, end |-> rs[1].e,
              gs |-> rs[1].gs, ge |-> rs[1].ge]
        ELSE NoMatch
  IN  With(Run(re, s, [e |-> p, gs |-> 0, ge |-> 0]), First)

\* the leftmost match of re in s among those that start at lo..hi
RECURSIVE Search(_, _, _, _)
Search(re, s, lo, hi) ==
  IF lo > hi THEN NoMatch
  ELSE IF lo = hi THEN MatchAt(re, s, lo)
  ELSE LET mid == (lo + hi) \div 2
       IN  With(Search(re, s, lo, mid),
                LAMBDA left :
                  IF left.found THEN left ELSE Search(re, s, mid + 1, hi))

\* a regular expression with its i flag
Regex(re, ignoreCase) == [re |-> re, i |-> ignoreCase]

Subject(rx, s) == IF rx.i THEN toLowerCase(s) ELSE s

\* s.match(rx) for an expression without the g flag
match(s, rx) ==
  With(Subject(rx, s), LAMBDA t : Search(rx.re, t, 1, Len(t) + 1))

\* rx.test(s)
test(rx, s) == match(s, rx).found

\* match[0] and match[1] of a match m of s ("" when the group is unset)
Whole(s, m) == SubSeq(s, m.start, m.end - 1)

Group1(s, m) == IF m.gs = 0 THEN <<>> ELSE SubSeq(s, m.gs, m.ge - 1)

\* ------------------------------------------------------------------------
\* FirecrawlService: the patterns of the markdown extraction methods
\* ------------------------------------------------------------------------
UnknownProduct == <<85,110,107,110,111,119,110,32,80,114,111,100,117,99,116>>  \* "Unknown Product"

\*   /^#\s+(.+)$/
\*   /^##\s+(.+)$/
\*   /title["\s]*[:=]\s*["']?([^"'\n]+)["']?/i
titlePatterns ==
  <<
    Regex(
      RxCat(<<
        RxBol,
        RxSet({35}),
        RxRep(RxSet(WhiteSpace), 1, Unbounded),
        RxGroup(
          RxRep(RxAny, 1, Unbounded)),
        RxEol >>),
      FALSE),
    Regex(
      RxCat(<<
        RxBol,
        RxStr(<<35,35>>),
        RxRep(RxSet(WhiteSpace), 1, Unbounded),
        RxGroup(
          RxRep(RxAny, 1, Unbounded)),
        RxEol >>),
      FALSE),
    Regex(
      RxCat(<<
        RxStr(<<116,105,116,108,101>>),
        RxRep(RxSet(WhiteSpace \cup {34}), 0, Unbounded),
        RxSet({58, 61}),
        RxRep(RxSet(WhiteSpace), 0, Unbounded),
        RxRep(RxSet({34, 39}), 0, 1),
        RxGroup(
          RxRep(RxNot({34, 39, 10}), 1, Unbounded)),
        RxRep(RxSet({34, 39}), 0, 1) >>),
      TRUE)
  >>

\*   /(?:introducing|presenting|discover)\s+([A-Z][a-zA-Z\s]{3,30})/i
\*   /([A-Z][a-zA-Z]+(?:\s+[A-Z][a-zA-Z]+)*)\s+(?:formula|system|method|solution)/i
productPatterns ==
  <<
    Regex(
      RxCat(<<
        RxAlt(<<
          RxStr(<<105,110,116,114,111,100,117,99,105,110,103>>),
          RxStr(<<112,114,101,115,101,110,116,105,110,103>>),
          RxStr(<<100,105,115,99,111,118,101,114>>) >>),
        RxRep(RxSet(WhiteSpace), 1, Unbounded),
        RxGroup(
          RxCat(<<
            RxSet((97..122)),
            RxRep(RxSet(WhiteSpace \cup (97..122)), 3, 30) >>)) >>),
      TRUE),
    Regex(
      RxCat(<<
        RxGroup(
          RxCat(<<
            RxSet((97..122)),
            RxRep(RxSet((97..122)), 1, Unbounded),
            RxRep(
              RxCat(<<
                RxRep(RxSet(WhiteSpace), 1, Unbounded),
                RxSet((97..122)),
                RxRep(RxSet((97..122)), 1, Unbounded) >>),
              0, Unbounded) >>)),
        RxRep(RxSet(WhiteSpace), 1, Unbounded),
        RxAlt(<<
          RxStr(<<102,111,114,109,117,108,97>>),
          RxStr(<<115,121,115,116,101,109>>),
          RxStr(<<109,101,116,104,111,100>>),
          RxStr(<<115,111,108,117,116,105,111,110>>) >>) >>),
      TRUE)
  >>

\*   /^#{1,3}\s+(.+)$/
\*   /^(.{10,100})$/
headlinePatterns ==
  <<
    Regex(
      RxCat(<<
        RxBol,
        RxRep(RxSet({35}), 1, 3),
        RxRep(RxSet(WhiteSpace), 1, Unbounded),
        RxGroup(
          RxRep(RxAny, 1, Unbounded)),
        RxEol >>),
      FALSE),
    Regex(
      RxCat(<<
        RxBol,
        RxGroup(
          RxRep(RxAny, 10, 100)),
        RxEol >>),
      FALSE)
  >>

DoubleQuote == <<34>>  \* """
\*   /\b(testimonial|review|customer|says?|amazing|incredible|transformed|changed my life)/i
testimonialIndicators ==
  Regex(
    RxCat(<<
      RxWordB,
      RxGroup(
        RxAlt(<<
          RxStr(<<116,101,115,116,105,109,111,110,105,97,108>>),
          RxStr(<<114,101,118,105,101,119>>),
          RxStr(<<99,117,115,116,111,109,101,114>>),
          RxCat(<<
            RxStr(<<115,97,121>>),
            RxRep(RxSet({115}), 0, 1) >>),
          RxStr(<<97,109,97,122,105,110,103>>),
          RxStr(<<105,110,99,114,101,100,105,98,108,101>>),
          RxStr(<<116,114,97,110,115,102,111,114,109,101,100>>),
          RxStr(<<99,104,97,110,103,101,100,32,109,121,32,108,105,102,101>>) >>)) >>),
    TRUE)

\*   /\$\d+(?:\.\d{2})?/
\*   /\d+\s*dollars?/i
\*   /price[:\s]+\$?\d+/i
\*   /only\s+\$?\d+/i
\*   /save\s+\$?\d+/i
\*   /\d+%\s*off/i
\*   /discount/i
\*   /special\s+offer/i
pricePatterns ==
  <<
    Regex(
      RxCat(<<
        RxSet({36}),
        RxRep(RxSet(Digits), 1, Unbounded),
        RxRep(
          RxCat(<<
            RxSet({46}),
            RxRep(RxSet(Digits), 2, 2) >>),
          0, 1) >>),
      FALSE),
    Regex(
      RxCat(<<
        RxRep(RxSet(Digits), 1, Unbounded),
        RxRep(RxSet(WhiteSpace), 0, Unbounded),
        RxStr(<<100,111,108,108,97,114>>),
        RxRep(RxSet({115}), 0, 1) >>),
      TRUE),
    Regex(
      RxCat(<<
        RxStr(<<112,114,105,99,101>>),
        RxRep(RxSet(WhiteSpace \cup {58}), 1, Unbounded),
        RxRep(RxSet({36}), 0, 1),
        RxRep(RxSet(Digits), 1, Unbounded) >>),
      TRUE),
    Regex(
      RxCat(<<
        RxStr(<<111,110,108,121>>),
        RxRep(RxSet(WhiteSpace), 1, Unbounded),
        RxRep(RxSet({36}), 0, 1),
        RxRep(RxSet(Digits), 1, Unbounded) >>),
      TRUE),
    Regex(
      RxCat(<<
        RxStr(<<115,97,118,101>>),
        RxRep(RxSet(WhiteSpace), 1, Unbounded),
        RxRep(RxSet({36}), 0, 1),
        RxRep(RxSet(Digits), 1, Unbounded) >>),
      TRUE),
    Regex(
      RxCat(<<
        RxRep(RxSet(Digits), 1, Unbounded),
        RxSet({37}),
        RxRep(RxSet(WhiteSpace), 0, Unbounded),
        RxStr(<<111,102,102>>) >>),
      TRUE),
    Regex(
      RxStr(<<100,105,115,99,111,117,110,116>>),
      TRUE),
    Regex(
      RxCat(<<
        RxStr(<<115,112,101,99,105,97,108>>),
        RxRep(RxSet(WhiteSpace), 1, Unbounded),
        RxStr(<<111,102,102,101,114>>) >>),
      TRUE)
  >>

\*   /^[\-\*\+]\s+(.+)$/
\*   /^\d+\.\s+(.+)$/
listItemPatterns ==
  <<
    Regex(
      RxCat(<<
        RxBol,
        RxSet({45, 42, 43}),
        RxRep(RxSet(WhiteSpace), 1, Unbounded),
        RxGroup(
          RxRep(RxAny, 1, Unbounded)),
        RxEol >>),
      FALSE),
    Regex(
      RxCat(<<
        RxBol,
        RxRep(RxSet(Digits), 1, Unbounded),
        RxSet({46}),
        RxRep(RxSet(WhiteSpace), 1, Unbounded),
        RxGroup(
          RxRep(RxAny, 1, Unbounded)),
        RxEol >>),
      FALSE)
  >>

\*   /^[\-\*\+\d\.\s]+/
listMarker ==
  Regex(
    RxCat(<<
      RxBol,
      RxRep(RxSet(Digits \cup WhiteSpace \cup {45, 42, 43, 46}), 1, Unbounded) >>),
    FALSE)

\*   /\b(benefit|advantage|feature|helps?|improves?|increases?|reduces?|eliminates?)/i
benefitKeywords ==
  Regex(
    RxCat(<<
      RxWordB,
      RxGroup(
        RxAlt(<<
          RxStr(<<98,101,110,101,102,105,116>>),
          RxStr(<<97,100,118,97,110,116,97,103,101>>),
          RxStr(<<102,101,97,116,117,114,101>>),
          RxCat(<<
            RxStr(<<104,101,108,112>>),
            RxRep(RxSet({115}), 0, 1) >>),
          RxCat(<<
            RxStr(<<105,109,112,114,111,118,101>>),
            RxRep(RxSet({115}), 0, 1) >>),
          RxCat(<<
            RxStr(<<105,110,99,114,101,97,115,101>>),
            RxRep(RxSet({115}), 0, 1) >>),
          RxCat(<<
            RxStr(<<114,101,100,117,99,101>>),
            RxRep(RxSet({115}), 0, 1) >>),
          RxCat(<<
            RxStr(<<101,108,105,109,105,110,97,116,101>>),
            RxRep(RxSet({115}), 0, 1) >>) >>)) >>),
    TRUE)

\*   /\b(buy now|order now|get started|click here|download|purchase|try now|start today|get instant access|claim now|join now)\b/i
\*   /\[(.*?)\]/
\*   /button.*?:\s*(.+)/i
ctaPatterns ==
  <<
    Regex(
      RxCat(<<
        RxWordB,
        RxGroup(
          RxAlt(<<
            RxStr(<<98,117,121,32,110,111,119>>),
            RxStr(<<111,114,100,101,114,32,110,111,119>>),
            RxStr(<<103,101,116,32,115,116,97,114,116,101,100>>),
            RxStr(<<99,108,105,99,107,32,104,101,114,101>>),
            RxStr(<<100,111,119,110,108,111,97,100>>),
            RxStr(<<112,117,114,99,104,97,115,101>>),
            RxStr(<<116,114,121,32,110,111,119>>),
            RxStr(<<115,116,97,114,116,32,116,111,100,97,121>>),
            RxStr(<<103,101,116,32,105,110,115,116,97,110,116,32,97,99,99,101,115,115>>),
            RxStr(<<99,108,97,105,109,32,110,111,119>>),
            RxStr(<<106,111,105,110,32,110,111,119>>) >>)),
        RxWordB >>),
      TRUE),
    Regex(
      RxCat(<<
        RxSet({91}),
        RxGroup(
          RxLazy(RxAny, 0, Unbounded)),
        RxSet({93}) >>),
      FALSE),
    Regex(
      RxCat(<<
        RxStr(<<98,117,116,116,111,110>>),
        RxLazy(RxAny, 0, Unbounded),
        RxSet({58}),
        RxRep(RxSet(WhiteSpace), 0, Unbounded),
        RxGroup(
          RxRep(RxAny, 1, Unbounded)) >>),
      TRUE)
  >>

\*   /\b(guarantee|refund|risk.free|money.back|satisfaction|no.questions.asked)\b/i
guaranteeKeywords ==
  Regex(
    RxCat(<<
      RxWordB,
      RxGroup(
        RxAlt(<<
          RxStr(<<103,117,97,114,97,110,116,101,101>>),
          RxStr(<<114,101,102,117,110,100>>),
          RxCat(<<
            RxStr(<<114,105,115,107>>),
            RxAny,
            RxStr(<<102,114,101,101>>) >>),
          RxCat(<<
            RxStr(<<109,111,110,101,121>>),
            RxAny,
            RxStr(<<98,97,99,107>>) >>),
          RxStr(<<115,97,116,105,115,102,97,99,116,105,111,110>>),
          RxCat(<<
            RxStr(<<110,111>>),
            RxAny,
            RxStr(<<113,117,101,115,116,105,111,110,115>>),
            RxAny,
            RxStr(<<97,115,107,101,100>>) >>) >>)),
      RxWordB >>),
    TRUE)

\*   /\b\d+\s*(?:days?|hours?|minutes?|weeks?|months?|years?)\b/i
\*   /\b(?:instant|immediately|same.day|overnight|within|in just)\b/i
timePatterns ==
  <<
    Regex(
      RxCat(<<
        RxWordB,
        RxRep(RxSet(Digits), 1, Unbounded),
        RxRep(RxSet(WhiteSpace), 0, Unbounded),
        RxAlt(<<
          RxCat(<<
            RxStr(<<100,97,121>>),
            RxRep(RxSet({115}), 0, 1) >>),
          RxCat(<<
            RxStr(<<104,111,117,114>>),
            RxRep(RxSet({115}), 0, 1) >>),
          RxCat(<<
            RxStr(<<109,105,110,117,116,101>>),
            RxRep(RxSet({115}), 0, 1) >>),
          RxCat(<<
            RxStr(<<119,101,101,107>>),
            RxRep(RxSet({115}), 0, 1) >>),
          RxCat(<<
            RxStr(<<109,111,110,116,104>>),
            RxRep(RxSet({115}), 0, 1) >>),
          RxCat(<<
            RxStr(<<121,101,97,114>>),
            RxRep(RxSet({115}), 0, 1) >>) >>),
        RxWordB >>),
      TRUE),
    Regex(
      RxCat(<<
        RxWordB,
        RxAlt(<<
          RxStr(<<105,110,115,116,97,110,116>>),
          RxStr(<<105,109,109,101,100,105,97,116,101,108,121>>),
          RxCat(<<
            RxStr(<<115,97,109,101>>),
            RxAny,
            RxStr(<<100,97,121>>) >>),
          RxStr(<<111,118,101,114,110,105,103,104,116>>),
          RxStr(<<119,105,116,104,105,110>>),
          RxStr(<<105,110,32,106,117,115,116>>) >>),
        RxWordB >>),
      TRUE)
  >>

\*   /\b\d+(?:,\d{3})*\+?\s*(?:customers?|users?|people|reviews?|satisfied|happy)\b/i
\*   /\b(?:thousands?|millions?|hundreds?)\s+of\s+(?:customers?|users?|people)\b/i
\*   /\b\d+(?:\.\d+)?\s*(?:stars?|rating|out of \d+)\b/i
\*   /\b(?:trusted by|used by|recommended by)\b/i
proofPatterns ==
  <<
    Regex(
      RxCat(<<
        RxWordB,
        RxRep(RxSet(Digits), 1, Unbounded),
        RxRep(
          RxCat(<<
            RxSet({44}),
            RxRep(RxSet(Digits), 3, 3) >>),
          0, Unbounded),
        RxRep(RxSet({43}), 0, 1),
        RxRep(RxSet(WhiteSpace), 0, Unbounded),
        RxAlt(<<
          RxCat(<<
            RxStr(<<99,117,115,116,111,109,101,114>>),
            RxRep(RxSet({115}), 0, 1) >>),
          RxCat(<<
            RxStr(<<117,115,101,114>>),
            RxRep(RxSet({115}), 0, 1) >>),
          RxStr(<<112,101,111,112,108,101>>),
          RxCat(<<
            RxStr(<<114,101,118,105,101,119>>),
            RxRep(RxSet({115}), 0, 1) >>),
          RxStr(<<115,97,116,105,115,102,105,101,100>>),
          RxStr(<<104,97,112,112,121>>) >>),
        RxWordB >>),
      TRUE),
    Regex(
      RxCat(<<
        RxWordB,
        RxAlt(<<
          RxCat(<<
            RxStr(<<116,104,111,117,115,97,110,100>>),
            RxRep(RxSet({115}), 0, 1) >>),
          RxCat(<<
            RxStr(<<109,105,108,108,105,111,110>>),
            RxRep(RxSet({115}), 0, 1) >>),
          RxCat(<<
            RxStr(<<104,117,110,100,114,101,100>>),
            RxRep(RxSet({115}), 0, 1) >>) >>),
        RxRep(RxSet(WhiteSpace), 1, Unbounded),
        RxStr(<<111,102>>),
        RxRep(RxSet(WhiteSpace), 1, Unbounded),
        RxAlt(<<
          RxCat(<<
            RxStr(<<99,117,115,116,111,109,101,114>>),
            RxRep(RxSet({115}), 0, 1) >>),
          RxCat(<<
            RxStr(<<117,115,101,114>>),
            RxRep(RxSet({115}), 0, 1) >>),
          RxStr(<<112,101,111,112,108,101>>) >>),
        RxWordB >>),
      TRUE),
    Regex(
      RxCat(<<
        RxWordB,
        RxRep(RxSet(Digits), 1, Unbounded),
        RxRep(
          RxCat(<<
            RxSet({46}),
            RxRep(RxSet(Digits), 1, Unbounded) >>),
          0, 1),
        RxRep(RxSet(WhiteSpace), 0, Unbounded),
        RxAlt(<<
          RxCat(<<
            RxStr(<<115,116,97,114>>),
            RxRep(RxSet({115}), 0, 1) >>),
          RxStr(<<114,97,116,105,110,103>>),
          RxCat(<<
            RxStr(<<111,117,116,32,111,102,32>>),
            RxRep(RxSet(Digits), 1, Unbounded) >>) >>),
        RxWordB >>),
      TRUE),
    Regex(
      RxCat(<<
        RxWordB,
        RxAlt(<<
          RxStr(<<116,114,117,115,116,101,100,32,98,121>>),
          RxStr(<<117,115,101,100,32,98,121>>),
          RxStr(<<114,101,99,111,109,109,101,110,100,101,100,32,98,121>>) >>),
        RxWordB >>),
      TRUE)
  >>

\*   /\b(?:discover|learn|get|achieve|transform|improve|increase|reduce|eliminate)\b/i
mainBenefitKeywords ==
  Regex(
    RxCat(<<
      RxWordB,
      RxAlt(<<
        RxStr(<<100,105,115,99,111,118,101,114>>),
        RxStr(<<108,101,97,114,110>>),
        RxStr(<<103,101,116>>),
        RxStr(<<97,99,104,105,101,118,101>>),
        RxStr(<<116,114,97,110,115,102,111,114,109>>),
        RxStr(<<105,109,112,114,111,118,101>>),
        RxStr(<<105,110,99,114,101,97,115,101>>),
        RxStr(<<114,101,100,117,99,101>>),
        RxStr(<<101,108,105,109,105,110,97,116,101>>) >>),
      RxWordB >>),
    TRUE)

\* the categories of inferCategory, in the order of Object.entries
categories ==
  <<
     [name |-> <<104,101,97,108,116,104>>,  \* health
      keywords |-> <<<<104,101,97,108,116,104>>, <<102,105,116,110,101,115,115>>, <<119,101,105,103,104,116>>, <<100,105,101,116>>, <<110,117,116,114,105,116,105,111,110>>, <<115,117,112,112,108,101,109,101,110,116>>, <<119,101,108,108,110,101,115,115>>>>],  \* health, fitness, weight, diet, nutrition, supplement, wellness
     [name |-> <<98,117,115,105,110,101,115,115>>,  \* business
      keywords |-> <<<<98,117,115,105,110,101,115,115>>, <<109,97,114,107,101,116,105,110,103>>, <<115,97,108,101,115>>, <<114,101,118,101,110,117,101>>, <<112,114,111,102,105,116>>, <<101,110,116,114,101,112,114,101,110,101,117,114>>>>],  \* business, marketing, sales, revenue, profit, entrepreneur
     [name |-> <<101,100,117,99,97,116,105,111,110>>,  \* education
      keywords |-> <<<<99,111,117,114,115,101>>, <<116,114,97,105,110,105,110,103>>, <<108,101,97,114,110>>, <<101,100,117,99,97,116,105,111,110>>, <<115,107,105,108,108>>, <<107,110,111,119,108,101,100,103,101>>>>],  \* course, training, learn, education, skill, knowledge
     [name |-> <<116,101,99,104,110,111,108,111,103,121>>,  \* technology
      keywords |-> <<<<115,111,102,116,119,97,114,101>>, <<97,112,112>>, <<100,105,103,105,116,97,108>>, <<97,117,116,111,109,97,116,105,111,110>>, <<116,101,99,104>>, <<111,110,108,105,110,101>>>>],  \* software, app, digital, automation, tech, online
     [name |-> <<102,105,110,97,110,99,101>>,  \* finance
      keywords |-> <<<<109,111,110,101,121>>, <<105,110,118,101,115,116,109,101,110,116>>, <<116,114,97,100,105,110,103>>, <<102,111,114,101,120>>, <<99,114,121,112,116,111>>, <<119,101,97,108,116,104>>>>]  \* money, investment, trading, forex, crypto, wealth
  >>
GeneralCategory == <<103,101,110,101,114,97,108>>  \* "general"

\* the audiences of inferTargetAudience, in the order of Object.entries
audiences ==
  <<
     [name |-> <<101,110,116,114,101,112,114,101,110,101,117,114,115>>,  \* entrepreneurs
      keywords |-> <<<<101,110,116,114,101,112,114,101,110,101,117,114>>, <<98,117,115,105,110,101,115,115,32,111,119,110,101,114>>, <<115,116,97,114,116,117,112>>, <<99,101,111>>>>],  \* entrepreneur, business owner, startup, ceo
     [name |-> <<102,105,116,110,101,115,115,32,101,110,116,104,117,115,105,97,115,116,115>>,  \* fitness enthusiasts
      keywords |-> <<<<102,105,116,110,101,115,115>>, <<103,121,109>>, <<119,111,114,107,111,117,116>>, <<97,116,104,108,101,116,101>>, <<98,111,100,121,98,117,105,108,100,101,114>>>>],  \* fitness, gym, workout, athlete, bodybuilder
     [name |-> <<105,110,118,101,115,116,111,114,115>>,  \* investors
      keywords |-> <<<<105,110,118,101,115,116,111,114>>, <<116,114,97,100,105,110,103>>, <<112,111,114,116,102,111,108,105,111>>, <<115,116,111,99,107,115>>, <<102,111,114,101,120>>>>],  \* investor, trading, portfolio, stocks, forex
     [name |-> <<115,116,117,100,101,110,116,115>>,  \* students
      keywords |-> <<<<115,116,117,100,101,110,116>>, <<99,111,108,108,101,103,101>>, <<117,110,105,118,101,114,115,105,116,121>>, <<108,101,97,114,110>>, <<101,100,117,99,97,116,105,111,110>>>>],  \* student, college, university, learn, education
     [name |-> <<112,114,111,102,101,115,115,105,111,110,97,108,115>>,  \* professionals
      keywords |-> <<<<112,114,111,102,101,115,115,105,111,110,97,108>>, <<99,97,114,101,101,114>>, <<119,111,114,107,112,108,97,99,101>>, <<99,111,114,112,111,114,97,116,101>>>>]  \* professional, career, workplace, corporate
  >>
GeneralAudience == <<103,101,110,101,114,97,108,32,97,117,100,105,101,110,99,101>>  \* "general audience"

\* ------------------------------------------------------------------------
\* FirecrawlService: extraction from markdown
\* ------------------------------------------------------------------------
\* the concatenation of the arrays of a
RECURSIVE Flatten(_)
Flatten(a) == IF a = <<>> THEN <<>> ELSE Head(a) \o Flatten(Tail(a))

\* what a loop over the lines has pushed, given what it pushes for a line
PushedBy(perLine) == Flatten(perLine)

AnyTest(patterns, line) ==
  \E k \in 1..Len(patterns) : test(patterns[k], line)

\* s.replace(rx, by) for an expression without the g flag
replace(s, rx, by) ==
  With(match(s, rx),
       LAMBDA m :
         IF m.found
         THEN SubSeq(s, 1, m.start - 1) \o by \o SubSeq(s, m.end, Len(s))
         ELSE s)

\* the name one (line, pattern) step of extractProductName returns, if any
TitleOf(line, rx) ==
  LET Name(g) ==
        IF g # <<>> /\ Len(g) > 3 /\ Len(g) < 100 THEN <<trim(g)>> ELSE <<>>
  IN  With(match(line, rx), LAMBDA m : With(Group1(line, m), Name))

ProductOf(fullText, rx) ==
  LET Name(g) == IF g # <<>> THEN <<trim(g)>> ELSE <<>>
  IN  With(match(fullText, rx), LAMBDA m : With(Group1(fullText, m), Name))

extractProductName(lines, fullText) ==
  LET titles ==
        Flatten([j \in 1..Len(lines) |->
          Flatten([k \in 1..Len(titlePatterns) |->
            TitleOf(lines[j], titlePatterns[k])])])
      products ==
        Flatten([k \in 1..Len(productPatterns) |->
          ProductOf(fullText, productPatterns[k])])
  IN  IF titles # <<>> THEN titles[1]
      ELSE IF products # <<>> THEN products[1]
      ELSE UnknownProduct

HeadlineOf(line, rx) ==
  LET Headline(g) ==
        IF g # <<>> /\ Len(g) > 10 /\ Len(g) < 200 THEN <<trim(g)>> ELSE <<>>
  IN  With(match(line, rx), LAMBDA m : With(Group1(line, m), Headline))

extractHeadlines(lines) ==
  LET first == slice(lines, 50)
  IN  slice(unique(PushedBy([j \in 1..Len(first) |->
        Flatten([k \in 1..Len(headlinePatterns) |->
          HeadlineOf(first[j], headlinePatterns[k])])])), 10)

TestimonialsOf(line) ==
  (IF includes(line, DoubleQuote) /\ Len(line) > 20 /\ Len(line) < 500
   THEN <<line>> ELSE <<>>)
  \o (IF test(testimonialIndicators, line) /\ Len(line) > 15
      THEN <<line>> ELSE <<>>)

extractTestimonials(lines) ==
  slice(unique(PushedBy([j \in 1..Len(lines) |-> TestimonialsOf(lines[j])])),
        10)

extractPricing(lines) ==
  slice(unique(PushedBy([j \in 1..Len(lines) |->
    IF Len(lines[j]) < 200 /\ AnyTest(pricePatterns, lines[j])
    THEN <<lines[j]>> ELSE <<>>])), 5)

BenefitsOf(line) ==
  LET Listed(cleanLine) ==
        IF Len(cleanLine) > 5 /\ Len(cleanLine) < 200
        THEN <<cleanLine>> ELSE <<>>
  IN  (IF AnyTest(listItemPatterns, line)
       THEN With(trim(replace(line, listMarker, <<>>)), Listed) ELSE <<>>)
      \o (IF test(benefitKeywords, line) /\ Len(line) > 10 /\ Len(line) < 200
          THEN <<line>> ELSE <<>>)

extractBenefits(lines) ==
  slice(unique(PushedBy([j \in 1..Len(lines) |-> BenefitsOf(lines[j])])), 15)

CtaOf(line, rx) ==
  LET Cta(text) ==
        IF text # <<>> /\ Len(trim(text)) > 3 /\ Len(trim(text)) < 100
        THEN <<trim(text)>> ELSE <<>>
  IN  With(match(line, rx),
           LAMBDA m : With(OrElse(Group1(line, m), Whole(line, m)), Cta))

extractCTAs(lines) ==
  slice(unique(PushedBy([j \in 1..Len(lines) |->
    Flatten([k \in 1..Len(ctaPatterns) |->
      CtaOf(lines[j], ctaPatterns[k])])])), 8)

extractGuarantees(lines) ==
  slice(unique(PushedBy([j \in 1..Len(lines) |->
    IF test(guaranteeKeywords, lines[j])
       /\ Len(lines[j]) > 10 /\ Len(lines[j]) < 300
    THEN <<lines[j]>> ELSE <<>>])), 5)

extractTimeframes(lines) ==
  slice(unique(PushedBy([j \in 1..Len(lines) |->
    IF Len(lines[j]) > 5 /\ Len(lines[j]) < 200
       /\ AnyTest(timePatterns, lines[j])
    THEN <<lines[j]>> ELSE <<>>])), 5)

extractSocialProof(lines) ==
  slice(unique(PushedBy([j \in 1..Len(lines) |->
    IF Len(lines[j]) > 5 /\ Len(lines[j]) < 200
       /\ AnyTest(proofPatterns, lines[j])
    THEN <<lines[j]>> ELSE <<>>])), 5)

extractMainBenefit(lines) ==
  LET first == slice(lines, 10)
      Compelling(line) ==
        Len(line) > 20 /\ Len(line) < 200 /\ test(mainBenefitKeywords, line)
      hits == SelectSeq(first, Compelling)
  IN  IF hits # <<>> THEN hits[1] ELSE <<>>

\* the name of the first entry of the table one of whose keywords the
\* lowercased text includes
InferFrom(table, text, default) ==
  LET Hit(entry) == SomeIncluded(toLowerCase(text), entry.keywords)
      hits == SelectSeq(table, Hit)
  IN  IF hits # <<>> THEN hits[1].name ELSE default

inferCategory(text) == InferFrom(categories, text, GeneralCategory)

inferTargetAudience(text) == InferFrom(audiences, text, GeneralAudience)

getEmptyExtractedData ==
  [productName |-> UnknownProduct,
   headlines |-> <<>>, testimonials |-> <<>>, pricing |-> <<>>,
   benefits |-> <<>>, ctas |-> <<>>, guarantees |-> <<>>,
   timeframes |-> <<>>, socialProof |-> <<>>,
   category |-> <<>>, targetAudience |-> <<>>, mainBenefit |-> <<>>]

parseMarkdownContent(markdown) ==
  IF markdown = <<>> THEN getEmptyExtractedData
  ELSE With(filterBoolean(TrimAll(split(markdown, 10))),
            LAMBDA lines :
              [productName |-> extractProductName(lines, markdown),
               headlines |-> extractHeadlines(lines),
               testimonials |-> extractTestimonials(lines),
               pricing |-> extractPricing(lines),
               benefits |-> extractBenefits(lines),
               ctas |-> extractCTAs(lines),
               guarantees |-> extractGuarantees(lines),
               timeframes |-> extractTimeframes(lines),
               socialProof |-> extractSocialProof(lines),
               category |-> inferCategory(markdown),
               targetAudience |-> inferTargetAudience(markdown),
               mainBenefit |-> extractMainBenefit(lines)])

\* ------------------------------------------------------------------------
\* FirecrawlService: selectors of the HTML extraction methods.  A document
\* is the sequence of its elements in document order, each with its tag,
\* its class attribute, its type and value attributes and its textContent.
\* ------------------------------------------------------------------------
Tag(t) == [tag |-> t, class |-> <<>>, contains |-> <<>>, type |-> ""]
Class(c) == [tag |-> "", class |-> c, contains |-> <<>>, type |-> ""]
ClassContains(c) == [tag |-> "", class |-> <<>>, contains |-> c, type |-> ""]
TagClassContains(t, c) == [tag |-> t, class |-> <<>>, contains |-> c, type |-> ""]
TagType(t, ty) == [tag |-> t, class |-> <<>>, contains |-> <<>>, type |-> ty]

headlineSelectors ==
  <<
     Tag("h1"),  \* h1
     Tag("h2"),  \* h2
     Tag("h3"),  \* h3
     Class(<<104,101,97,100,108,105,110,101>>),  \* .headline
     ClassContains(<<104,101,114,111>>)  \* [class*="hero"]
  >>

testimonialSelectors ==
  <<
     Class(<<116,101,115,116,105,109,111,110,105,97,108>>),  \* .testimonial
     ClassContains(<<114,101,118,105,101,119>>),  \* [class*="review"]
     ClassContains(<<102,101,101,100,98,97,99,107>>),  \* [class*="feedback"]
     Class(<<113,117,111,116,101>>),  \* .quote
     Tag("blockquote"),  \* blockquote
     ClassContains(<<116,101,115,116,105,109,111,110,105,97,108>>)  \* [class*="testimonial"]
  >>

pricingSelectors ==
  <<
     Class(<<112,114,105,99,101>>),  \* .price
     ClassContains(<<99,111,115,116>>),  \* [class*="cost"]
     ClassContains(<<109,111,110,101,121>>),  \* [class*="money"]
     ClassContains(<<112,114,105,99,105,110,103>>),  \* [class*="pricing"]
     Class(<<111,102,102,101,114>>),  \* .offer
     ClassContains(<<100,105,115,99,111,117,110,116>>)  \* [class*="discount"]
  >>

ctaSelectors ==
  <<
     Tag("button"),  \* button
     Class(<<98,116,110>>),  \* .btn
     ClassContains(<<99,116,97>>),  \* [class*="cta"]
     Class(<<98,117,116,116,111,110>>),  \* .button
     TagClassContains("a", <<98,117,116,116,111,110>>),  \* a[class*="button"]
     TagType("input", "submit")  \* input[type="submit"]
  >>


\* ------------------------------------------------------------------------
\* Values of a JSON document: a string, an array, or another type
\* ------------------------------------------------------------------------
JString(s) == [type |-> "string", str |-> s, items |-> <<>>]
JArray(items) == [type |-> "array", str |-> <<>>, items |-> items]
JUndefined == [type |-> "undefined", str |-> <<>>, items |-> <<>>]
JNumber == [type |-> "number", str |-> <<>>, items |-> <<>>]

ExtractedFields ==
  {"productName", "headlines", "testimonials", "pricing", "benefits", "ctas",
   "guarantees", "timeframes", "socialProof", "category", "targetAudience",
   "mainBenefit"}

\* an object with the given properties; reading another property of it
\* gives undefined
JObject(props) ==
  [f \in ExtractedFields |-> IF f \in DOMAIN props THEN props[f] ELSE JUndefined]

\* prefix followed by the two digits of j
Numbered(prefix, j) == prefix \o <<48 + (j \div 10), 48 + (j % 10)>>


\* ------------------------------------------------------------------------
\* The pages the extractor is run on
\* ------------------------------------------------------------------------
\* markdown of fallbackData in scrapeWebsite
NoContentExtracted == <<78,111,32,99,111,110,116,101,110,116,32,101,120,116,114,97,99,116,101,100>>  \* "No content extracted"

\* a sales page with every kind of evidence
SalesPage ==
  <<35,32,65,99,109,101,32,87,105,100,103,101,116,32,80,114,111,10,10,71,101,116,32,115,116,97,114,116,101,100,32,116,111,100,97,121,32,97,110,100,32,105,109,112,114,111,118,101,32,121,111,117,114,32,115,108,101,101,112,10,45,32,72,101,108,112,115,32,121,111,117,32,114,101,108,97,120,32,119,105,116,104,105,110,32,55,32,100,97,121,115,10,34,84,104,105,115,32,119,105,100,103,101,116,32,99,104,97,110,103,101,100,32,109,121,32,108,105,102,101,34,32,45,32,74,97,110,101,10,79,110,108,121,32,36,52,57,32,119,105,116,104,32,97,32,109,111,110,101,121,32,98,97,99,107,32,103,117,97,114,97,110,116,101,101,10,84,114,117,115,116,101,100,32,98,121,32,53,48,48,48,32,99,117,115,116,111,109,101,114,115>>
  \* "# Acme Widget Pro\n\nGet started today and improve your sleep\n- Helps you relax within 7 days\n"This widget changed my life" - Jane\nOnly $49 with a money back guarantee\nTrusted by 5000 customers"

\* a page with one short line
ShortPage == <<87,101,108,99,111,109,101>>  \* "Welcome"

\* a page whose title names the product and that has no list and no
\* call to action
TitlePage == <<35,32,65,99,109,101,32,87,105,100,103,101,116,32,80,114,111>>  \* "# Acme Widget Pro"

\* the page of scenario A
ScenarioPage ==
  <<35,32,65,99,109,101,32,87,105,100,103,101,116,10,10,71,101,116,32,97,109,97,122,105,110,103,32,114,101,115,117,108,116,115,32,105,110,32,51,48,32,100,97,121,115,46,10,10,34,84,104,105,115,32,99,104,97,110,103,101,100,32,109,121,32,108,105,102,101,33,34,32,45,32,74,97,110,101,10,10,36,52,57,32,111,110,108,121,32,116,111,100,97,121,10,10,54,48,45,100,97,121,32,109,111,110,101,121,45,98,97,99,107,32,103,117,97,114,97,110,116,101,101>>
  \* "# Acme Widget\n\nGet amazing results in 30 days.\n\n"This changed my life!" - Jane\n\n$49 only today\n\n60-day money-back guarantee"

\* LongPageLines lines "Chapter number 01", "Chapter number 02", ...
LongPageLines == 12

RECURSIVE JoinLines(_)
JoinLines(lines) ==
  IF Len(lines) <= 1 THEN (IF lines = <<>> THEN <<>> ELSE lines[1])
  ELSE lines[1] \o <<10>> \o JoinLines(Tail(lines))

LongPage ==
  JoinLines([j \in 1..LongPageLines |-> Numbered(<<67,104,97,112,116,101,114,32,110,117,109,98,101,114,32>>, j)])

\* scrapedData.markdown: absent, empty, or a text
Markdowns ==
  <<Undefined, <<>>, NoContentExtracted, SalesPage, ShortPage, TitlePage,
    LongPage, ScenarioPage>>

\* scrapedData.html: absent or empty, or a document
NoHtml == [present |-> FALSE, elements |-> <<>>]
Document(elements) == [present |-> TRUE, elements |-> elements]
Element(tag, class, text) ==
  [tag |-> tag, class |-> class, type |-> "", text |-> text,
   value |-> Undefined]
InputElement(type, value) ==
  [tag |-> "input", class |-> <<>>, type |-> type, text |-> <<>>,
   value |-> value]

\* <p>Hello</p>
PlainDocument == Document(<<Element("p", <<>>, <<72,101,108,108,111>>)>>)

\* a document with headings, a testimonial, a price and calls to action
SalesDocument ==
  Document(<<
    Element("h1", <<>>, <<65,99,109,101,32,87,105,100,103,101,116,32,80,114,111>>),  \* <h1>Acme Widget Pro
    Element("div", <<104,101,114,111,45,98,97,110,110,101,114>>, <<32,84,104,101,32,98,101,115,116,32,119,105,100,103,101,116,32,101,118,101,114,32,109,97,100,101,32>>),  \* <div class="hero-banner"> The best widget ever made 
    Element("p", <<99,117,115,116,111,109,101,114,45,114,101,118,105,101,119,115>>, <<73,32,115,108,101,101,112,32,115,111,32,109,117,99,104,32,98,101,116,116,101,114,32,110,111,119>>),  \* <p class="customer-reviews">I sleep so much better now
    Element("blockquote", <<>>, <<73,32,115,108,101,101,112,32,115,111,32,109,117,99,104,32,98,101,116,116,101,114,32,110,111,119>>),  \* <blockquote>I sleep so much better now
    Element("span", <<112,114,105,99,101>>, <<36,52,57>>),  \* <span class="price">$49
    Element("a", <<98,116,110,32,99,116,97,45,109,97,105,110>>, <<79,114,100,101,114,32,110,111,119>>),  \* <a class="btn cta-main">Order now
    Element("button", <<>>, <<71,111>>),  \* <button>Go
    InputElement("submit", <<74,111,105,110,32,110,111,119>>)  \* <input type="submit" value="Join now">
  >>)

Htmls == <<NoHtml, PlainDocument, SalesDocument>>

\* scrapedData.json: absent, or an object
NoJson == [present |-> FALSE, value |-> JObject(<<>>)]
Json(props) == [present |-> TRUE, value |-> JObject(props)]

\* a complete record whose category is not one of the ProductData categories
GadgetJson ==
  Json([productName |-> JString(<<32,32,65,99,109,101,32,32,32,87,105,100,103,101,116,32>>),  \* "  Acme   Widget "
        headlines |-> JArray(<<JString(<<83,108,101,101,112,32,98,101,116,116,101,114,32,116,111,110,105,103,104,116>>)>>),
        benefits |-> JArray(<<JString(<<72,101,108,112,115,32,121,111,117,32,114,101,108,97,120>>)>>),
        ctas |-> JArray(<<JString(<<79,114,100,101,114,32,110,111,119>>)>>),
        category |-> JString(<<103,97,100,103,101,116>>),  \* "gadget"
        mainBenefit |-> JNumber])

\* a record without headlines, benefits and calls to action
NameOnlyJson ==
  Json([productName |-> JString(<<65,99,109,101,32,87,105,100,103,101,116>>),
        category |-> JString(<<115,111,102,116,119,97,114,101>>)])

\* a complete record with more entries than any cap, and with values of
\* other types than the declared ones
LongJsonItems == 21

Many(prefix) ==
  JArray([j \in 1..LongJsonItems |-> JString(Numbered(prefix, j))])

LongJson ==
  Json([productName |-> JString(<<65,99,109,101,32,87,105,100,103,101,116>>),
        headlines |-> Many(<<72,101,97,100,108,105,110,101,32>>),  \* "Headline "
        testimonials |-> JArray(<<JNumber, JString(<<32,32>>), JString(<<71,114,101,97,116,32,32,112,114,111,100,117,99,116>>)>>),
        pricing |-> JString(<<36,52,57>>),
        benefits |-> Many(<<66,101,110,101,102,105,116,32>>),  \* "Benefit "
        ctas |-> Many(<<79,114,100,101,114,32>>),  \* "Order "
        guarantees |-> Many(<<82,101,102,117,110,100,32>>),  \* "Refund "
        socialProof |-> Many(<<80,114,111,111,102,32>>)])  \* "Proof "

Jsons == <<NoJson, GadgetJson, NameOnlyJson, LongJson>>

\* ------------------------------------------------------------------------
\* FirecrawlService: cleaning of pre-structured data
\* ------------------------------------------------------------------------
\* s.replace(/\s+/g, ' '): every run of white space becomes one space
RECURSIVE CollapseSpaces(_)
CollapseSpaces(s) ==
  IF s = <<>> THEN <<>>
  ELSE IF Head(s) \in WhiteSpace
       THEN <<32>> \o CollapseSpaces(TrimStart(Tail(s)))
       ELSE <<Head(s)>> \o CollapseSpaces(Tail(s))

cleanString(str) ==
  IF str.type # "string" THEN <<>>
  ELSE substring(CollapseSpaces(trim(str.str)), 500)

cleanStringArray(arr) ==
  IF arr.type # "array" THEN <<>>
  ELSE LET IsText(item) == item.type = "string" /\ Len(trim(item.str)) > 0
           texts == SelectSeq(arr.items, IsText)
           cleaned == [j \in 1..Len(texts) |-> cleanString(texts[j])]
       IN  slice(SelectSeq(cleaned, NonEmpty), 20)

validateAndCleanLLMData(jsonData) ==
  [productName |-> OrElse(cleanString(jsonData.productName), UnknownProduct),
   headlines |-> cleanStringArray(jsonData.headlines),
   testimonials |-> cleanStringArray(jsonData.testimonials),
   pricing |-> cleanStringArray(jsonData.pricing),
   benefits |-> cleanStringArray(jsonData.benefits),
   ctas |-> cleanStringArray(jsonData.ctas),
   guarantees |-> cleanStringArray(jsonData.guarantees),
   timeframes |-> cleanStringArray(jsonData.timeframes),
   socialProof |-> cleanStringArray(jsonData.socialProof),
   category |-> cleanString(jsonData.category),
   targetAudience |-> cleanString(jsonData.targetAudience),
   mainBenefit |-> cleanString(jsonData.mainBenefit)]

\* ------------------------------------------------------------------------
\* FirecrawlService: extraction from HTML
\* ------------------------------------------------------------------------
\* the class names of an element
ClassList(el) == filterBoolean(split(el.class, 32))

Matches(el, selector) ==
  /\ selector.tag = "" \/ el.tag = selector.tag
  /\ selector.class = <<>>
       \/ \E j \in 1..Len(ClassList(el)) : ClassList(el)[j] = selector.class
  /\ selector.contains = <<>> \/ includes(el.class, selector.contains)
  /\ selector.type = "" \/ el.type = selector.type

\* doc.querySelectorAll(selector)
querySelectorAll(doc, selector) ==
  LET Selected(el) == Matches(el, selector)
  IN  SelectSeq(doc, Selected)

\* el.textContent?.trim()
TextOf(el) == trim(el.text)

\* el.textContent?.trim() || el.getAttribute('value')?.trim()
TextOrValueOf(el) ==
  OrElse(TextOf(el), IF el.value = Undefined THEN Undefined ELSE trim(el.value))

\* the texts that the loops over the selectors and their elements push:
\* those longer than lo and shorter than hi
Collected(doc, selectors, Text(_), lo, hi) ==
  LET Kept(text) ==
        text # <<>> /\ text # Undefined /\ Len(text) > lo /\ Len(text) < hi
      TextsOf(selector) ==
        LET els == querySelectorAll(doc, selector)
        IN  SelectSeq([j \in 1..Len(els) |-> Text(els[j])], Kept)
  IN  Flatten([k \in 1..Len(selectors) |-> TextsOf(selectors[k])])

extractHtmlHeadlines(doc) ==
  slice(unique(Collected(doc, headlineSelectors, TextOf, 5, 200)), 10)

extractHtmlTestimonials(doc) ==
  slice(unique(Collected(doc, testimonialSelectors, TextOf, 10, 500)), 10)

extractHtmlPricing(doc) ==
  slice(unique(Collected(doc, pricingSelectors, TextOf, 1, 200)), 5)

extractHtmlCTAs(doc) ==
  slice(unique(Collected(doc, ctaSelectors, TextOrValueOf, 2, 100)), 8)

\* html is the document that DOMParser builds from the text
parseHtmlContent(html) ==
  [headlines |-> extractHtmlHeadlines(html.elements),
   testimonials |-> extractHtmlTestimonials(html.elements),
   pricing |-> extractHtmlPricing(html.elements),
   ctas |-> extractHtmlCTAs(html.elements)]

\* ------------------------------------------------------------------------
\* FirecrawlService: quality of an extraction.  A number is a multiple of
\* 1/Scale, or NaN; the weights are written in hundredths.
\* ------------------------------------------------------------------------
Scale == 3000

Num(n) == [nan |-> FALSE, n |-> n]

NaN == [nan |-> TRUE, n |-> 0]

Hundredths(h) == Num(h * (Scale \div 100))

\* a + b
Plus(a, b) == IF a.nan \/ b.nan THEN NaN ELSE Num(a.n + b.n)

\* variant: a * Math.min(per / len, 1)
TimesShareInverted(a, len, per) ==
  IF a.nan THEN NaN
  ELSE Num((a.n * Min((30 * per) \div len, 30)) \div 30)

\* a * Math.min(len / per, 1)
TimesShare(a, len, per) ==
  IF a.nan THEN NaN
  ELSE Num((a.n * Min(len * (30 \div per), 30)) \div 30)

\* a > b and a < b; both are false when a or b is NaN
Greater(a, b) == ~a.nan /\ ~b.nan /\ a.n > b.n

Less(a, b) == Greater(b, a)

\* Math.min(a, b)
MathMin(a, b) == IF a.nan \/ b.nan THEN NaN ELSE Num(Min(a.n, b.n))

affiliateWeights ==
  [productName |-> 15, headlines |-> 15, testimonials |-> 15, pricing |-> 15,
   benefits |-> 15, ctas |-> 10, guarantees |-> 10, socialProof |-> 5]

plainWeights ==
  [productName |-> 20, headlines |-> 25, benefits |-> 20, ctas |-> 15,
   testimonials |-> 10, pricing |-> 10]

\* weights[key]: undefined, which becomes NaN in a sum, for a missing key
WeightOf(weights, key) ==
  IF key \in DOMAIN weights THEN Hundredths(weights[key]) ELSE NaN

\* the amounts that calculateQualityScore adds to the score, in order;
\* an amount that it does not add is 0
ScoreTerms(data, weights) ==
  <<IF data.productName # <<>> /\ data.productName # UnknownProduct
       /\ Len(data.productName) > 3
    THEN WeightOf(weights, "productName") ELSE Num(0),
    IF Len(data.headlines) > 0
    THEN TimesShare(WeightOf(weights, "headlines"), Len(data.headlines), 3)
    ELSE Num(0),
    IF Len(data.testimonials) > 0
    THEN TimesShare(WeightOf(weights, "testimonials"),
                    Len(data.testimonials), 2)
    ELSE Num(0),
    IF Len(data.pricing) > 0 THEN WeightOf(weights, "pricing") ELSE Num(0),
    IF Len(data.benefits) > 0
    THEN TimesShare(WeightOf(weights, "benefits"), Len(data.benefits), 5)
    ELSE Num(0),
    IF Len(data.ctas) > 0
    THEN TimesShare(WeightOf(weights, "ctas"), Len(data.ctas), 2)
    ELSE Num(0),
    IF Len(data.guarantees) > 0
    THEN WeightOf(weights, "guarantees") ELSE Num(0),
    IF Len(data.socialProof) > 0
    THEN WeightOf(weights, "socialProof") ELSE Num(0)>>

\* 0 + terms[1] + ... + terms[j]
RECURSIVE SumTo(_, _)
SumTo(terms, j) ==
  IF j = 0 THEN Num(0)
  ELSE With(SumTo(terms, j - 1), LAMBDA sum : Plus(sum, terms[j]))

calculateQualityScore(data, affiliate) ==
  With(ScoreTerms(data, IF affiliate THEN affiliateWeights ELSE plainWeights),
       LAMBDA terms :
         With(SumTo(terms, Len(terms)),
              LAMBDA score : MathMin(score, Num(Scale))))

requiredFields == <<"productName", "headlines", "benefits", "ctas">>

optionalFields ==
  <<"testimonials", "pricing", "guarantees", "socialProof", "timeframes">>

\* variant: the placeholder name counts as a product name
calculateCompletenessScoreWithPlaceholder(data) ==
  LET Filled(field) ==
        IF field = "productName"
        THEN data.productName # <<>>
        ELSE Len(data[field]) > 0
      required == Len(SelectSeq(requiredFields, Filled))
      optional == Len(SelectSeq(optionalFields, Filled))
      total == Len(requiredFields) * 2 + Len(optionalFields)
  IN  [num |-> Min(required * 2 + optional, total), den |-> total]

\* the value of calculateCompletenessScore as a fraction
calculateCompletenessScore(data) ==
  LET Filled(field) ==
        IF field = "productName"
        THEN data.productName # <<>> /\ data.productName # UnknownProduct
        ELSE Len(data[field]) > 0
      required == Len(SelectSeq(requiredFields, Filled))
      optional == Len(SelectSeq(optionalFields, Filled))
      total == Len(requiredFields) * 2 + Len(optionalFields)
  IN  [num |-> Min(required * 2 + optional, total), den |-> total]

\* variant: the evidence of a sale is asked of every page
identifyMissingFieldsOfEveryPage(data, affiliate) ==
  (IF data.productName = <<>> \/ data.productName = UnknownProduct
   THEN <<"Product Name">> ELSE <<>>)
  \o (IF Len(data.headlines) = 0 THEN <<"Headlines">> ELSE <<>>)
  \o (IF Len(data.benefits) = 0 THEN <<"Benefits">> ELSE <<>>)
  \o (IF Len(data.ctas) = 0 THEN <<"Call-to-Actions">> ELSE <<>>)
  \o (IF Len(data.testimonials) = 0 THEN <<"Testimonials">> ELSE <<>>)
  \o (IF Len(data.pricing) = 0 THEN <<"Pricing Information">> ELSE <<>>)
  \o (IF Len(data.guarantees) = 0 THEN <<"Guarantees">> ELSE <<>>)

identifyMissingFields(data, affiliate) ==
  (IF data.productName = <<>> \/ data.productName = UnknownProduct
   THEN <<"Product Name">> ELSE <<>>)
  \o (IF Len(data.headlines) = 0 THEN <<"Headlines">> ELSE <<>>)
  \o (IF Len(data.benefits) = 0 THEN <<"Benefits">> ELSE <<>>)
  \o (IF Len(data.ctas) = 0 THEN <<"Call-to-Actions">> ELSE <<>>)
  \o (IF affiliate /\ Len(data.testimonials) = 0
      THEN <<"Testimonials">> ELSE <<>>)
  \o (IF affiliate /\ Len(data.pricing) = 0
      THEN <<"Pricing Information">> ELSE <<>>)
  \o (IF affiliate /\ Len(data.guarantees) = 0
      THEN <<"Guarantees">> ELSE <<>>)

\* variant: the thresholds belong to the level above them
determineConfidenceInclusive(qualityScore, extractionMethod) ==
  IF extractionMethod = "llm"
     /\ (Greater(qualityScore, Hundredths(80))
           \/ qualityScore = Hundredths(80))
  THEN "high"
  ELSE IF Greater(qualityScore, Hundredths(70))
          \/ qualityScore = Hundredths(70)
  THEN "high"
  ELSE IF Greater(qualityScore, Hundredths(50))
          \/ qualityScore = Hundredths(50)
  THEN "medium"
  ELSE "low"

determineConfidence(qualityScore, extractionMethod) ==
  IF extractionMethod = "llm" /\ Greater(qualityScore, Hundredths(80))
  THEN "high"
  ELSE IF Greater(qualityScore, Hundredths(70)) THEN "high"
  ELSE IF Greater(qualityScore, Hundredths(50)) THEN "medium"
  ELSE "low"

isDataIncomplete(data) ==
  \/ Len(data.headlines) = 0
  \/ Len(data.benefits) = 0
  \/ Len(data.ctas) = 0
  \/ data.productName = UnknownProduct

\* secondary[field] || [] and secondary[field] of a partial record
ArrayOf(secondary, field) ==
  IF field \in DOMAIN secondary THEN secondary[field] ELSE <<>>

StringOf(secondary, field) ==
  IF field \in DOMAIN secondary THEN secondary[field] ELSE Undefined

\* a || b where b may be undefined
OrUndefined(a, b) == IF a = <<>> THEN b ELSE a

\* variant: the entries of the secondary come first
mergeExtractedDataSecondaryFirst(primary, secondary) ==
  LET Union(field, cap) ==
        slice(unique(ArrayOf(secondary, field) \o primary[field]), cap)
  IN  [productName |->
         IF primary.productName # UnknownProduct THEN primary.productName
         ELSE OrElse(StringOf(secondary, "productName"), primary.productName),
       headlines |-> Union("headlines", 10),
       testimonials |-> Union("testimonials", 10),
       pricing |-> Union("pricing", 5),
       benefits |-> Union("benefits", 15),
       ctas |-> Union("ctas", 8),
       guarantees |-> Union("guarantees", 5),
       timeframes |-> Union("timeframes", 5),
       socialProof |-> Union("socialProof", 5),
       category |->
         OrUndefined(primary.category, StringOf(secondary, "category")),
       targetAudience |->
         OrUndefined(primary.targetAudience,
                     StringOf(secondary, "targetAudience")),
       mainBenefit |->
         OrUndefined(primary.mainBenefit, StringOf(secondary, "mainBenefit"))]

mergeExtractedData(primary, secondary) ==
  LET Union(field, cap) ==
        slice(unique(primary[field] \o ArrayOf(secondary, field)), cap)
  IN  [productName |->
         IF primary.productName # UnknownProduct THEN primary.productName
         ELSE OrElse(StringOf(secondary, "productName"), primary.productName),
       headlines |-> Union("headlines", 10),
       testimonials |-> Union("testimonials", 10),
       pricing |-> Union("pricing", 5),
       benefits |-> Union("benefits", 15),
       ctas |-> Union("ctas", 8),
       guarantees |-> Union("guarantees", 5),
       timeframes |-> Union("timeframes", 5),
       socialProof |-> Union("socialProof", 5),
       category |->
         OrUndefined(primary.category, StringOf(secondary, "category")),
       targetAudience |->
         OrUndefined(primary.targetAudience,
                     StringOf(secondary, "targetAudience")),
       mainBenefit |->
         OrUndefined(primary.mainBenefit, StringOf(secondary, "mainBenefit"))]

\* the first assignment of extractedData and extractionMethod in
\* analyzeScrapedContent
PrimaryOf(data) ==
  IF data.json.present
  THEN [data |-> validateAndCleanLLMData(data.json.value), method |-> "llm"]
  ELSE [data |-> parseMarkdownContent(OrElse(data.markdown, <<>>)),
        method |-> "parsing"]

\* their second assignment, when the HTML is parsed as well
EnhancedOf(data, primary) ==
  IF data.html.present /\ isDataIncomplete(primary.data)
  THEN [data |-> With(parseHtmlContent(data.html),
                      LAMBDA htmlParsed :
                        mergeExtractedData(primary.data, htmlParsed)),
        method |-> IF primary.method = "llm" THEN "hybrid" ELSE "parsing"]
  ELSE primary

\* the result, from the final extractedData and extractionMethod
AnalysisOf(extracted, affiliate) ==
  With(calculateQualityScore(extracted.data, affiliate),
       LAMBDA qualityScore :
         [extractedData |-> extracted.data,
          qualityScore |-> qualityScore,
          completenessScore |-> calculateCompletenessScore(extracted.data),
          missingFields |-> identifyMissingFields(extracted.data, affiliate),
          confidence |-> determineConfidence(qualityScore, extracted.method),
          extractionMethod |-> extracted.method])

analyzeScrapedContent(data, affiliate) ==
  With(PrimaryOf(data),
       LAMBDA primary :
         With(EnhancedOf(data, primary),
              LAMBDA extracted : AnalysisOf(extracted, affiliate)))

\* ------------------------------------------------------------------------
\* ContentAnalyzer: the patterns and texts of the heuristic analysis
\* ------------------------------------------------------------------------
\*   /prodentim|pro-dentim|pro dentim/gi
\*   /(\w+\s*(?:plus|pro|max|ultra|premium|advanced))/gi
\*   /([A-Z][a-z]+(?:Pro|Plus|Max|Ultra|Premium|Advanced))/g
healthProductPatterns ==
  <<
    Regex(
      RxAlt(<<
        RxStr(<<112,114,111,100,101,110,116,105,109>>),
        RxStr(<<112,114,111,45,100,101,110,116,105,109>>),
        RxStr(<<112,114,111,32,100,101,110,116,105,109>>) >>),
      TRUE),
    Regex(
      RxGroup(
        RxCat(<<
          RxRep(RxSet(WordChars), 1, Unbounded),
          RxRep(RxSet(WhiteSpace), 0, Unbounded),
          RxAlt(<<
            RxStr(<<112,108,117,115>>),
            RxStr(<<112,114,111>>),
            RxStr(<<109,97,120>>),
            RxStr(<<117,108,116,114,97>>),
            RxStr(<<112,114,101,109,105,117,109>>),
            RxStr(<<97,100,118,97,110,99,101,100>>) >>) >>)),
      TRUE),
    Regex(
      RxGroup(
        RxCat(<<
          RxSet((65..90)),
          RxRep(RxSet((97..122)), 1, Unbounded),
          RxAlt(<<
            RxStr(<<80,114,111>>),
            RxStr(<<80,108,117,115>>),
            RxStr(<<77,97,120>>),
            RxStr(<<85,108,116,114,97>>),
            RxStr(<<80,114,101,109,105,117,109>>),
            RxStr(<<65,100,118,97,110,99,101,100>>) >>) >>)),
      FALSE)
  >>

Untitled == <<85,110,116,105,116,108,101,100>>  \* "Untitled"

Clickbank == <<99,108,105,99,107,98,97,110,107>>  \* "clickbank"

\*   /[|\-\u2013\u2014].*$/
titleSeparator ==
  Regex(
    RxCat(<<
      RxSet({124, 45, 8211, 8212}),
      RxRep(RxAny, 0, Unbounded),
      RxEol >>),
    FALSE)

\*   /\s*[-\u2013\u2014]\s*.*$/
titleDash ==
  Regex(
    RxCat(<<
      RxRep(RxSet(WhiteSpace), 0, Unbounded),
      RxSet({45, 8211, 8212}),
      RxRep(RxSet(WhiteSpace), 0, Unbounded),
      RxRep(RxAny, 0, Unbounded),
      RxEol >>),
    FALSE)

\*   /^\W+|\W+$/g
nonWordEnds ==
  Regex(
    RxAlt(<<
      RxCat(<<
        RxBol,
        RxRep(RxNot(WordChars), 1, Unbounded) >>),
      RxCat(<<
        RxRep(RxNot(WordChars), 1, Unbounded),
        RxEol >>) >>),
    FALSE)

\*   /^#{1,3}\s+([^#\n]{5,60})/gm
\*   /\*\*([A-Z][^*]{3,50})\*\*/g
\*   /"([A-Z][^"]{3,50})"/g
salesHeadingPatterns ==
  <<
    Regex(
      RxCat(<<
        RxBolM,
        RxRep(RxSet({35}), 1, 3),
        RxRep(RxSet(WhiteSpace), 1, Unbounded),
        RxGroup(
          RxRep(RxNot({35, 10}), 5, 60)) >>),
      FALSE),
    Regex(
      RxCat(<<
        RxStr(<<42,42>>),
        RxGroup(
          RxCat(<<
            RxSet((65..90)),
            RxRep(RxNot({42}), 3, 50) >>)),
        RxStr(<<42,42>>) >>),
      FALSE),
    Regex(
      RxCat(<<
        RxSet({34}),
        RxGroup(
          RxCat(<<
            RxSet((65..90)),
            RxRep(RxNot({34}), 3, 50) >>)),
        RxSet({34}) >>),
      FALSE)
  >>

headingStopWords ==
  <<<<119,101,108,99,111,109,101>>,
    <<100,105,115,99,111,118,101,114>>,
    <<102,105,110,97,108,108,121>>,
    <<98,114,101,97,107,116,104,114,111,117,103,104>>>>
  \* welcome, discover, finally, breakthrough

ProductAnalysis == <<80,114,111,100,117,99,116,32,65,110,97,108,121,115,105,115>>  \* "Product Analysis"

\*   /(?:get|achieve|experience|enjoy|discover|unlock|obtain)\s+([^.!?\n]{20,150})/gi
\*   /(?:improve|boost|enhance|strengthen|restore|rebuild|support)\s+(?:your\s+)?([^.!?\n]{15,120})/gi
\*   /(?:eliminate|reduce|stop|prevent|avoid|end)\s+([^.!?\n]{15,120})/gi
\*   /(?:transform|change|revolutionize)\s+(?:your\s+)?([^.!?\n]{15,120})/gi
\*   /(?:finally|now you can|you can now|imagine if you could)\s+([^.!?\n]{15,150})/gi
\*   /(?:guaranteed to|proven to|designed to|created to)\s+([^.!?\n]{15,120})/gi
salesBenefitPatterns ==
  <<
    Regex(
      RxCat(<<
        RxAlt(<<
          RxStr(<<103,101,116>>),
          RxStr(<<97,99,104,105,101,118,101>>),
          RxStr(<<101,120,112,101,114,105,101,110,99,101>>),
          RxStr(<<101,110,106,111,121>>),
          RxStr(<<100,105,115,99,111,118,101,114>>),
          RxStr(<<117,110,108,111,99,107>>),
          RxStr(<<111,98,116,97,105,110>>) >>),
        RxRep(RxSet(WhiteSpace), 1, Unbounded),
        RxGroup(
          RxRep(RxNot({46, 33, 63, 10}), 20, 150)) >>),
      TRUE),
    Regex(
      RxCat(<<
        RxAlt(<<
          RxStr(<<105,109,112,114,111,118,101>>),
          RxStr(<<98,111,111,115,116>>),
          RxStr(<<101,110,104,97,110,99,101>>),
          RxStr(<<115,116,114,101,110,103,116,104,101,110>>),
          RxStr(<<114,101,115,116,111,114,101>>),
          RxStr(<<114,101,98,117,105,108,100>>),
          RxStr(<<115,117,112,112,111,114,116>>) >>),
        RxRep(RxSet(WhiteSpace), 1, Unbounded),
        RxRep(
          RxCat(<<
            RxStr(<<121,111,117,114>>),
            RxRep(RxSet(WhiteSpace), 1, Unbounded) >>),
          0, 1),
        RxGroup(
          RxRep(RxNot({46, 33, 63, 10}), 15, 120)) >>),
      TRUE),
    Regex(
      RxCat(<<
        RxAlt(<<
          RxStr(<<101,108,105,109,105,110,97,116,101>>),
          RxStr(<<114,101,100,117,99,101>>),
          RxStr(<<115,116,111,112>>),
          RxStr(<<112,114,101,118,101,110,116>>),
          RxStr(<<97,118,111,105,100>>),
          RxStr(<<101,110,100>>) >>),
        RxRep(RxSet(WhiteSpace), 1, Unbounded),
        RxGroup(
          RxRep(RxNot({46, 33, 63, 10}), 15, 120)) >>),
      TRUE),
    Regex(
      RxCat(<<
        RxAlt(<<
          RxStr(<<116,114,97,110,115,102,111,114,109>>),
          RxStr(<<99,104,97,110,103,101>>),
          RxStr(<<114,101,118,111,108,117,116,105,111,110,105,122,101>>) >>),
        RxRep(RxSet(WhiteSpace), 1, Unbounded),
        RxRep(
          RxCat(<<
            RxStr(<<121,111,117,114>>),
            RxRep(RxSet(WhiteSpace), 1, Unbounded) >>),
          0, 1),
        RxGroup(
          RxRep(RxNot({46, 33, 63, 10}), 15, 120)) >>),
      TRUE),
    Regex(
      RxCat(<<
        RxAlt(<<
          RxStr(<<102,105,110,97,108,108,121>>),
          RxStr(<<110,111,119,32,121,111,117,32,99,97,110>>),
          RxStr(<<121,111,117,32,99,97,110,32,110,111,119>>),
          RxStr(<<105,109,97,103,105,110,101,32,105,102,32,121,111,117,32,99,111,117,108,100>>) >>),
        RxRep(RxSet(WhiteSpace), 1, Unbounded),
        RxGroup(
          RxRep(RxNot({46, 33, 63, 10}), 15, 150)) >>),
      TRUE),
    Regex(
      RxCat(<<
        RxAlt(<<
          RxStr(<<103,117,97,114,97,110,116,101,101,100,32,116,111>>),
          RxStr(<<112,114,111,118,101,110,32,116,111>>),
          RxStr(<<100,101,115,105,103,110,101,100,32,116,111>>),
          RxStr(<<99,114,101,97,116,101,100,32,116,111>>) >>),
        RxRep(RxSet(WhiteSpace), 1, Unbounded),
        RxGroup(
          RxRep(RxNot({46, 33, 63, 10}), 15, 120)) >>),
      TRUE)
  >>

benefitStopWords ==
  <<<<117,110,100,101,102,105,110,101,100>>,
    <<99,108,105,99,107,32,104,101,114,101>>,
    <<111,114,100,101,114,32,110,111,119>>>>
  \* undefined, click here, order now

\*   /^#{1,3}\s+([^#\n]{25,150})/gm
\*   /\*\*([^*]{25,150})\*\*/g
benefitHeadlinePatterns ==
  <<
    Regex(
      RxCat(<<
        RxBolM,
        RxRep(RxSet({35}), 1, 3),
        RxRep(RxSet(WhiteSpace), 1, Unbounded),
        RxGroup(
          RxRep(RxNot({35, 10}), 25, 150)) >>),
      FALSE),
    Regex(
      RxCat(<<
        RxStr(<<42,42>>),
        RxGroup(
          RxRep(RxNot({42}), 25, 150)),
        RxStr(<<42,42>>) >>),
      FALSE)
  >>

headlineVerbs ==
  <<<<103,101,116,32>>,
    <<105,109,112,114,111,118,101,32>>,
    <<101,108,105,109,105,110,97,116,101,32>>,
    <<100,105,115,99,111,118,101,114,32>>,
    <<97,99,104,105,101,118,101,32>>>>
  \* get , improve , eliminate , discover , achieve 

\*   /[.!?]+/
sentenceEnd ==
  Regex(
    RxRep(RxSet({46, 33, 63}), 1, Unbounded),
    FALSE)

sentenceStopWords ==
  <<<<99,111,111,107,105,101>>,
    <<112,114,105,118,97,99,121>>,
    <<116,101,114,109,115>>>>
  \* cookie, privacy, terms

sentenceKeywords ==
  <<<<104,101,97,108,116,104>>,
    <<105,109,112,114,111,118,101>>,
    <<98,101,116,116,101,114>>,
    <<115,111,108,117,116,105,111,110>>>>
  \* health, improve, better, solution

DefaultMainBenefit == <<84,114,97,110,115,102,111,114,109,32,121,111,117,114,32,104,101,97,108,116,104,32,97,110,100,32,119,101,108,108,110,101,115,115,32,119,105,116,104,32,116,104,105,115,32,98,114,101,97,107,116,104,114,111,117,103,104,32,115,111,108,117,116,105,111,110>>  \* "Transform your health and wellness with this breakthrough solution"

\*   /(?:if you(?:'re| are)|are you)\s+([^.!?\n]{15,100})/gi
\*   /(?:for|designed for|perfect for|ideal for|targeting)\s+([^.!?\n]{10,80})/gi
\*   /(?:people who|individuals who|those who)\s+([^.!?\n]{15,100})/gi
\*   /(?:men and women|adults|people)\s+(?:over|above|aged)\s+(\d+[^.!?\n]{5,80})/gi
\*   /(?:anyone|people|individuals)\s+(?:suffering from|struggling with|dealing with)\s+([^.!?\n]{10,80})/gi
salesAudiencePatterns ==
  <<
    Regex(
      RxCat(<<
        RxAlt(<<
          RxCat(<<
            RxStr(<<105,102,32,121,111,117>>),
            RxAlt(<<
              RxStr(<<39,114,101>>),
              RxStr(<<32,97,114,101>>) >>) >>),
          RxStr(<<97,114,101,32,121,111,117>>) >>),
        RxRep(RxSet(WhiteSpace), 1, Unbounded),
        RxGroup(
          RxRep(RxNot({46, 33, 63, 10}), 15, 100)) >>),
      TRUE),
    Regex(
      RxCat(<<
        RxAlt(<<
          RxStr(<<102,111,114>>),
          RxStr(<<100,101,115,105,103,110,101,100,32,102,111,114>>),
          RxStr(<<112,101,114,102,101,99,116,32,102,111,114>>),
          RxStr(<<105,100,101,97,108,32,102,111,114>>),
          RxStr(<<116,97,114,103,101,116,105,110,103>>) >>),
        RxRep(RxSet(WhiteSpace), 1, Unbounded),
        RxGroup(
          RxRep(RxNot({46, 33, 63, 10}), 10, 80)) >>),
      TRUE),
    Regex(
      RxCat(<<
        RxAlt(<<
          RxStr(<<112,101,111,112,108,101,32,119,104,111>>),
          RxStr(<<105,110,100,105,118,105,100,117,97,108,115,32,119,104,111>>),
          RxStr(<<116,104,111,115,101,32,119,104,111>>) >>),
        RxRep(RxSet(WhiteSpace), 1, Unbounded),
        RxGroup(
          RxRep(RxNot({46, 33, 63, 10}), 15, 100)) >>),
      TRUE),
    Regex(
      RxCat(<<
        RxAlt(<<
          RxStr(<<109,101,110,32,97,110,100,32,119,111,109,101,110>>),
          RxStr(<<97,100,117,108,116,115>>),
          RxStr(<<112,101,111,112,108,101>>) >>),
        RxRep(RxSet(WhiteSpace), 1, Unbounded),
        RxAlt(<<
          RxStr(<<111,118,101,114>>),
          RxStr(<<97,98,111,118,101>>),
          RxStr(<<97,103,101,100>>) >>),
        RxRep(RxSet(WhiteSpace), 1, Unbounded),
        RxGroup(
          RxCat(<<
            RxRep(RxSet(Digits), 1, Unbounded),
            RxRep(RxNot({46, 33, 63, 10}), 5, 80) >>)) >>),
      TRUE),
    Regex(
      RxCat(<<
        RxAlt(<<
          RxStr(<<97,110,121,111,110,101>>),
          RxStr(<<112,101,111,112,108,101>>),
          RxStr(<<105,110,100,105,118,105,100,117,97,108,115>>) >>),
        RxRep(RxSet(WhiteSpace), 1, Unbounded),
        RxAlt(<<
          RxStr(<<115,117,102,102,101,114,105,110,103,32,102,114,111,109>>),
          RxStr(<<115,116,114,117,103,103,108,105,110,103,32,119,105,116,104>>),
          RxStr(<<100,101,97,108,105,110,103,32,119,105,116,104>>) >>),
        RxRep(RxSet(WhiteSpace), 1, Unbounded),
        RxGroup(
          RxRep(RxNot({46, 33, 63, 10}), 10, 80)) >>),
      TRUE)
  >>

UndefinedWord == <<117,110,100,101,102,105,110,101,100>>  \* "undefined"

dentalWords ==
  <<<<100,101,110,116,97,108>>,
    <<116,101,101,116,104>>,
    <<103,117,109>>>>
  \* dental, teeth, gum

DentalAudience == <<97,100,117,108,116,115,32,99,111,110,99,101,114,110,101,100,32,97,98,111,117,116,32,111,114,97,108,32,97,110,100,32,100,101,110,116,97,108,32,104,101,97,108,116,104>>  \* "adults concerned about oral and dental health"

weightWords ==
  <<<<119,101,105,103,104,116>>,
    <<100,105,101,116>>>>
  \* weight, diet

WeightAudience == <<105,110,100,105,118,105,100,117,97,108,115,32,108,111,111,107,105,110,103,32,116,111,32,109,97,110,97,103,101,32,116,104,101,105,114,32,119,101,105,103,104,116,32,97,110,100,32,105,109,112,114,111,118,101,32,104,101,97,108,116,104>>  \* "individuals looking to manage their weight and improve health"

DefaultAudience == <<104,101,97,108,116,104,45,99,111,110,115,99,105,111,117,115,32,97,100,117,108,116,115,32,115,101,101,107,105,110,103,32,110,97,116,117,114,97,108,32,119,101,108,108,110,101,115,115,32,115,111,108,117,116,105,111,110,115>>  \* "health-conscious adults seeking natural wellness solutions"

\*   /"([^"]{30,300})"/g
\*   /'([^']{30,300})'/g
\*   /testimonial[:\s]*([^.!?\n]{30,300})/gi
\*   /review[:\s]*([^.!?\n]{30,300})/gi
\*   /(?:customer|client|user)\s+(?:says?|reports?|shares?)[:\s]*([^.!?\n]{30,300})/gi
\*   /(?:i|we)\s+(?:was|were|am|are)\s+([^.!?\n]{30,200})/gi
testimonialPatterns ==
  <<
    Regex(
      RxCat(<<
        RxSet({34}),
        RxGroup(
          RxRep(RxNot({34}), 30, 300)),
        RxSet({34}) >>),
      FALSE),
    Regex(
      RxCat(<<
        RxSet({39}),
        RxGroup(
          RxRep(RxNot({39}), 30, 300)),
        RxSet({39}) >>),
      FALSE),
    Regex(
      RxCat(<<
        RxStr(<<116,101,115,116,105,109,111,110,105,97,108>>),
        RxRep(RxSet(WhiteSpace \cup {58}), 0, Unbounded),
        RxGroup(
          RxRep(RxNot({46, 33, 63, 10}), 30, 300)) >>),
      TRUE),
    Regex(
      RxCat(<<
        RxStr(<<114,101,118,105,101,119>>),
        RxRep(RxSet(WhiteSpace \cup {58}), 0, Unbounded),
        RxGroup(
          RxRep(RxNot({46, 33, 63, 10}), 30, 300)) >>),
      TRUE),
    Regex(
      RxCat(<<
        RxAlt(<<
          RxStr(<<99,117,115,116,111,109,101,114>>),
          RxStr(<<99,108,105,101,110,116>>),
          RxStr(<<117,115,101,114>>) >>),
        RxRep(RxSet(WhiteSpace), 1, Unbounded),
        RxAlt(<<
          RxCat(<<
            RxStr(<<115,97,121>>),
            RxRep(RxSet({115}), 0, 1) >>),
          RxCat(<<
            RxStr(<<114,101,112,111,114,116>>),
            RxRep(RxSet({115}), 0, 1) >>),
          RxCat(<<
            RxStr(<<115,104,97,114,101>>),
            RxRep(RxSet({115}), 0, 1) >>) >>),
        RxRep(RxSet(WhiteSpace \cup {58}), 0, Unbounded),
        RxGroup(
          RxRep(RxNot({46, 33, 63, 10}), 30, 300)) >>),
      TRUE),
    Regex(
      RxCat(<<
        RxAlt(<<
          RxSet({105}),
          RxStr(<<119,101>>) >>),
        RxRep(RxSet(WhiteSpace), 1, Unbounded),
        RxAlt(<<
          RxStr(<<119,97,115>>),
          RxStr(<<119,101,114,101>>),
          RxStr(<<97,109>>),
          RxStr(<<97,114,101>>) >>),
        RxRep(RxSet(WhiteSpace), 1, Unbounded),
        RxGroup(
          RxRep(RxNot({46, 33, 63, 10}), 30, 200)) >>),
      TRUE)
  >>

testimonialStopWords ==
  <<<<99,108,105,99,107>>,
    <<111,114,100,101,114>>,
    <<98,117,121>>>>
  \* click, order, buy

\*   /(\d+(?:,\d{3})*)\s*(?:\+\s*)?(?:customers|users|clients|people|individuals|men|women)/gi
\*   /(?:over|more than|above)\s+(\d+(?:,\d{3})*)\s*(?:customers|users|people|satisfied)/gi
\*   /(\d+(?:\.\d+)?[%])\s*(?:success|satisfaction|effective|improvement|better)/gi
\*   /(\d+(?:,\d{3})*)\s*(?:bottles sold|units sold|satisfied customers)/gi
\*   /(\d+(?:\.\d+)?\s*(?:star|stars))/gi
\*   /(\d+(?:,\d{3})*)\s*(?:reviews|ratings|testimonials)/gi
socialProofPatterns ==
  <<
    Regex(
      RxCat(<<
        RxGroup(
          RxCat(<<
            RxRep(RxSet(Digits), 1, Unbounded),
            RxRep(
              RxCat(<<
                RxSet({44}),
                RxRep(RxSet(Digits), 3, 3) >>),
              0, Unbounded) >>)),
        RxRep(RxSet(WhiteSpace), 0, Unbounded),
        RxRep(
          RxCat(<<
            RxSet({43}),
            RxRep(RxSet(WhiteSpace), 0, Unbounded) >>),
          0, 1),
        RxAlt(<<
          RxStr(<<99,117,115,116,111,109,101,114,115>>),
          RxStr(<<117,115,101,114,115>>),
          RxStr(<<99,108,105,101,110,116,115>>),
          RxStr(<<112,101,111,112,108,101>>),
          RxStr(<<105,110,100,105,118,105,100,117,97,108,115>>),
          RxStr(<<109,101,110>>),
          RxStr(<<119,111,109,101,110>>) >>) >>),
      TRUE),
    Regex(
      RxCat(<<
        RxAlt(<<
          RxStr(<<111,118,101,114>>),
          RxStr(<<109,111,114,101,32,116,104,97,110>>),
          RxStr(<<97,98,111,118,101>>) >>),
        RxRep(RxSet(WhiteSpace), 1, Unbounded),
        RxGroup(
          RxCat(<<
            RxRep(RxSet(Digits), 1, Unbounded),
            RxRep(
              RxCat(<<
                RxSet({44}),
                RxRep(RxSet(Digits), 3, 3) >>),
              0, Unbounded) >>)),
        RxRep(RxSet(WhiteSpace), 0, Unbounded),
        RxAlt(<<
          RxStr(<<99,117,115,116,111,109,101,114,115>>),
          RxStr(<<117,115,101,114,115>>),
          RxStr(<<112,101,111,112,108,101>>),
          RxStr(<<115,97,116,105,115,102,105,101,100>>) >>) >>),
      TRUE),
    Regex(
      RxCat(<<
        RxGroup(
          RxCat(<<
            RxRep(RxSet(Digits), 1, Unbounded),
            RxRep(
              RxCat(<<
                RxSet({46}),
                RxRep(RxSet(Digits), 1, Unbounded) >>),
              0, 1),
            RxSet({37}) >>)),
        RxRep(RxSet(WhiteSpace), 0, Unbounded),
        RxAlt(<<
          RxStr(<<115,117,99,99,101,115,115>>),
          RxStr(<<115,97,116,105,115,102,97,99,116,105,111,110>>),
          RxStr(<<101,102,102,101,99,116,105,118,101>>),
          RxStr(<<105,109,112,114,111,118,101,109,101,110,116>>),
          RxStr(<<98,101,116,116,101,114>>) >>) >>),
      TRUE),
    Regex(
      RxCat(<<
        RxGroup(
          RxCat(<<
            RxRep(RxSet(Digits), 1, Unbounded),
            RxRep(
              RxCat(<<
                RxSet({44}),
                RxRep(RxSet(Digits), 3, 3) >>),
              0, Unbounded) >>)),
        RxRep(RxSet(WhiteSpace), 0, Unbounded),
        RxAlt(<<
          RxStr(<<98,111,116,116,108,101,115,32,115,111,108,100>>),
          RxStr(<<117,110,105,116,115,32,115,111,108,100>>),
          RxStr(<<115,97,116,105,115,102,105,101,100,32,99,117,115,116,111,109,101,114,115>>) >>) >>),
      TRUE),
    Regex(
      RxGroup(
        RxCat(<<
          RxRep(RxSet(Digits), 1, Unbounded),
          RxRep(
            RxCat(<<
              RxSet({46}),
              RxRep(RxSet(Digits), 1, Unbounded) >>),
            0, 1),
          RxRep(RxSet(WhiteSpace), 0, Unbounded),
          RxAlt(<<
            RxStr(<<115,116,97,114>>),
            RxStr(<<115,116,97,114,115>>) >>) >>)),
      TRUE),
    Regex(
      RxCat(<<
        RxGroup(
          RxCat(<<
            RxRep(RxSet(Digits), 1, Unbounded),
            RxRep(
              RxCat(<<
                RxSet({44}),
                RxRep(RxSet(Digits), 3, 3) >>),
              0, Unbounded) >>)),
        RxRep(RxSet(WhiteSpace), 0, Unbounded),
        RxAlt(<<
          RxStr(<<114,101,118,105,101,119,115>>),
          RxStr(<<114,97,116,105,110,103,115>>),
          RxStr(<<116,101,115,116,105,109,111,110,105,97,108,115>>) >>) >>),
      TRUE)
  >>

\*   /(\d+\s*(?:day|days|month|months))\s*(?:money.{0,20}back|guarantee|refund)/gi
\*   /money.{0,20}back.{0,20}guarantee/gi
\*   /satisfaction.{0,20}guaranteed/gi
\*   /risk.{0,15}free/gi
\*   /no.{0,10}(?:risk|questions asked)/gi
\*   /100[%]?\s*(?:guarantee|satisfaction|refund)/gi
\*   /(?:full|complete|total)\s*(?:refund|money back)/gi
guaranteePatterns ==
  <<
    Regex(
      RxCat(<<
        RxGroup(
          RxCat(<<
            RxRep(RxSet(Digits), 1, Unbounded),
            RxRep(RxSet(WhiteSpace), 0, Unbounded),
            RxAlt(<<
              RxStr(<<100,97,121>>),
              RxStr(<<100,97,121,115>>),
              RxStr(<<109,111,110,116,104>>),
              RxStr(<<109,111,110,116,104,115>>) >>) >>)),
        RxRep(RxSet(WhiteSpace), 0, Unbounded),
        RxAlt(<<
          RxCat(<<
            RxStr(<<109,111,110,101,121>>),
            RxRep(RxAny, 0, 20),
            RxStr(<<98,97,99,107>>) >>),
          RxStr(<<103,117,97,114,97,110,116,101,101>>),
          RxStr(<<114,101,102,117,110,100>>) >>) >>),
      TRUE),
    Regex(
      RxCat(<<
        RxStr(<<109,111,110,101,121>>),
        RxRep(RxAny, 0, 20),
        RxStr(<<98,97,99,107>>),
        RxRep(RxAny, 0, 20),
        RxStr(<<103,117,97,114,97,110,116,101,101>>) >>),
      TRUE),
    Regex(
      RxCat(<<
        RxStr(<<115,97,116,105,115,102,97,99,116,105,111,110>>),
        RxRep(RxAny, 0, 20),
        RxStr(<<103,117,97,114,97,110,116,101,101,100>>) >>),
      TRUE),
    Regex(
      RxCat(<<
        RxStr(<<114,105,115,107>>),
        RxRep(RxAny, 0, 15),
        RxStr(<<102,114,101,101>>) >>),
      TRUE),
    Regex(
      RxCat(<<
        RxStr(<<110,111>>),
        RxRep(RxAny, 0, 10),
        RxAlt(<<
          RxStr(<<114,105,115,107>>),
          RxStr(<<113,117,101,115,116,105,111,110,115,32,97,115,107,101,100>>) >>) >>),
      TRUE),
    Regex(
      RxCat(<<
        RxStr(<<49,48,48>>),
        RxRep(RxSet({37}), 0, 1),
        RxRep(RxSet(WhiteSpace), 0, Unbounded),
        RxAlt(<<
          RxStr(<<103,117,97,114,97,110,116,101,101>>),
          RxStr(<<115,97,116,105,115,102,97,99,116,105,111,110>>),
          RxStr(<<114,101,102,117,110,100>>) >>) >>),
      TRUE),
    Regex(
      RxCat(<<
        RxAlt(<<
          RxStr(<<102,117,108,108>>),
          RxStr(<<99,111,109,112,108,101,116,101>>),
          RxStr(<<116,111,116,97,108>>) >>),
        RxRep(RxSet(WhiteSpace), 0, Unbounded),
        RxAlt(<<
          RxStr(<<114,101,102,117,110,100>>),
          RxStr(<<109,111,110,101,121,32,98,97,99,107>>) >>) >>),
      TRUE)
  >>

\*   /(?:instant|immediate|within\s+\d+\s+(?:minutes|hours|days))/gi
\*   /(?:download|access)\s+(?:immediately|instantly|right away)/gi
deliveryTimePatterns ==
  <<
    Regex(
      RxAlt(<<
        RxStr(<<105,110,115,116,97,110,116>>),
        RxStr(<<105,109,109,101,100,105,97,116,101>>),
        RxCat(<<
          RxStr(<<119,105,116,104,105,110>>),
          RxRep(RxSet(WhiteSpace), 1, Unbounded),
          RxRep(RxSet(Digits), 1, Unbounded),
          RxRep(RxSet(WhiteSpace), 1, Unbounded),
          RxAlt(<<
            RxStr(<<109,105,110,117,116,101,115>>),
            RxStr(<<104,111,117,114,115>>),
            RxStr(<<100,97,121,115>>) >>) >>) >>),
      TRUE),
    Regex(
      RxCat(<<
        RxAlt(<<
          RxStr(<<100,111,119,110,108,111,97,100>>),
          RxStr(<<97,99,99,101,115,115>>) >>),
        RxRep(RxSet(WhiteSpace), 1, Unbounded),
        RxAlt(<<
          RxStr(<<105,109,109,101,100,105,97,116,101,108,121>>),
          RxStr(<<105,110,115,116,97,110,116,108,121>>),
          RxStr(<<114,105,103,104,116,32,97,119,97,121>>) >>) >>),
      TRUE)
  >>

\*   /(?:results|benefits|changes)\s+(?:in|within)\s+(\d+\s+(?:days|weeks|months))/gi
\*   /(?:see|notice|experience)\s+(?:results|benefits|changes)\s+(?:in|within)\s+(\d+\s+(?:days|weeks|months))/gi
resultPatterns ==
  <<
    Regex(
      RxCat(<<
        RxAlt(<<
          RxStr(<<114,101,115,117,108,116,115>>),
          RxStr(<<98,101,110,101,102,105,116,115>>),
          RxStr(<<99,104,97,110,103,101,115>>) >>),
        RxRep(RxSet(WhiteSpace), 1, Unbounded),
        RxAlt(<<
          RxStr(<<105,110>>),
          RxStr(<<119,105,116,104,105,110>>) >>),
        RxRep(RxSet(WhiteSpace), 1, Unbounded),
        RxGroup(
          RxCat(<<
            RxRep(RxSet(Digits), 1, Unbounded),
            RxRep(RxSet(WhiteSpace), 1, Unbounded),
            RxAlt(<<
              RxStr(<<100,97,121,115>>),
              RxStr(<<119,101,101,107,115>>),
              RxStr(<<109,111,110,116,104,115>>) >>) >>)) >>),
      TRUE),
    Regex(
      RxCat(<<
        RxAlt(<<
          RxStr(<<115,101,101>>),
          RxStr(<<110,111,116,105,99,101>>),
          RxStr(<<101,120,112,101,114,105,101,110,99,101>>) >>),
        RxRep(RxSet(WhiteSpace), 1, Unbounded),
        RxAlt(<<
          RxStr(<<114,101,115,117,108,116,115>>),
          RxStr(<<98,101,110,101,102,105,116,115>>),
          RxStr(<<99,104,97,110,103,101,115>>) >>),
        RxRep(RxSet(WhiteSpace), 1, Unbounded),
        RxAlt(<<
          RxStr(<<105,110>>),
          RxStr(<<119,105,116,104,105,110>>) >>),
        RxRep(RxSet(WhiteSpace), 1, Unbounded),
        RxGroup(
          RxCat(<<
            RxRep(RxSet(Digits), 1, Unbounded),
            RxRep(RxSet(WhiteSpace), 1, Unbounded),
            RxAlt(<<
              RxStr(<<100,97,121,115>>),
              RxStr(<<119,101,101,107,115>>),
              RxStr(<<109,111,110,116,104,115>>) >>) >>)) >>),
      TRUE)
  >>

Missing == <<77,73,83,83,73,78,71>>  \* "MISSING"

easyWords ==
  <<<<101,97,115,121>>,
    <<115,105,109,112,108,101>>,
    <<101,102,102,111,114,116,108,101,115,115>>,
    <<97,117,116,111,109,97,116,105,99>>,
    <<98,101,103,105,110,110,101,114>>>>
  \* easy, simple, effortless, automatic, beginner

hardWords ==
  <<<<97,100,118,97,110,99,101,100>>,
    <<99,111,109,112,108,101,120>>,
    <<101,120,112,101,114,116>>,
    <<100,105,102,102,105,99,117,108,116>>,
    <<99,104,97,108,108,101,110,103,105,110,103>>>>
  \* advanced, complex, expert, difficult, challenging

\*   /(?:requires?|need|must have)\s+([^.!?\n]{10,80})/gi
\*   /(?:prerequisite|requirement):\s*([^.!?\n]{10,80})/gi
prereqPatterns ==
  <<
    Regex(
      RxCat(<<
        RxAlt(<<
          RxCat(<<
            RxStr(<<114,101,113,117,105,114,101>>),
            RxRep(RxSet({115}), 0, 1) >>),
          RxStr(<<110,101,101,100>>),
          RxStr(<<109,117,115,116,32,104,97,118,101>>) >>),
        RxRep(RxSet(WhiteSpace), 1, Unbounded),
        RxGroup(
          RxRep(RxNot({46, 33, 63, 10}), 10, 80)) >>),
      TRUE),
    Regex(
      RxCat(<<
        RxAlt(<<
          RxStr(<<112,114,101,114,101,113,117,105,115,105,116,101>>),
          RxStr(<<114,101,113,117,105,114,101,109,101,110,116>>) >>),
        RxSet({58}),
        RxRep(RxSet(WhiteSpace), 0, Unbounded),
        RxGroup(
          RxRep(RxNot({46, 33, 63, 10}), 10, 80)) >>),
      TRUE)
  >>

\*   /(?:easy to use|user.?friendly|simple to operate|intuitive)/gi
\*   /(?:plug.?and.?play|one.?click|drag.?and.?drop)/gi
easePatterns ==
  <<
    Regex(
      RxAlt(<<
        RxStr(<<101,97,115,121,32,116,111,32,117,115,101>>),
        RxCat(<<
          RxStr(<<117,115,101,114>>),
          RxRep(RxAny, 0, 1),
          RxStr(<<102,114,105,101,110,100,108,121>>) >>),
        RxStr(<<115,105,109,112,108,101,32,116,111,32,111,112,101,114,97,116,101>>),
        RxStr(<<105,110,116,117,105,116,105,118,101>>) >>),
      TRUE),
    Regex(
      RxAlt(<<
        RxCat(<<
          RxStr(<<112,108,117,103>>),
          RxRep(RxAny, 0, 1),
          RxStr(<<97,110,100>>),
          RxRep(RxAny, 0, 1),
          RxStr(<<112,108,97,121>>) >>),
        RxCat(<<
          RxStr(<<111,110,101>>),
          RxRep(RxAny, 0, 1),
          RxStr(<<99,108,105,99,107>>) >>),
        RxCat(<<
          RxStr(<<100,114,97,103>>),
          RxRep(RxAny, 0, 1),
          RxStr(<<97,110,100>>),
          RxRep(RxAny, 0, 1),
          RxStr(<<100,114,111,112>>) >>) >>),
      TRUE)
  >>

TransformYourResults == <<84,114,97,110,115,102,111,114,109,32,121,111,117,114,32,114,101,115,117,108,116,115>>  \* "Transform your results"

ProfessionalsAudience == <<112,114,111,102,101,115,115,105,111,110,97,108,115,32,97,110,100,32,101,110,116,114,101,112,114,101,110,101,117,114,115>>  \* "professionals and entrepreneurs"

ConfidenceAndSuccess == <<99,111,110,102,105,100,101,110,99,101,32,97,110,100,32,115,117,99,99,101,115,115>>  \* "confidence and success"

HealthIndustry == <<72,101,97,108,116,104,32,38,32,87,101,108,108,110,101,115,115>>  \* "Health & Wellness"

HealthCategory == <<104,101,97,108,116,104>>  \* "health"

MediumPricePoint == <<109,101,100,105,117,109>>  \* "medium"

EmotionalOutcome == <<105,109,112,114,111,118,101,100,32,99,111,110,102,105,100,101,110,99,101,32,97,110,100,32,119,101,108,108,45,98,101,105,110,103>>  \* "improved confidence and well-being"

UnknownTitle == <<85,110,107,110,111,119,110>>  \* "Unknown"

InfoDefault == <<105,110,102,111>>  \* "info"

GeneralIndustry == <<71,101,110,101,114,97,108>>  \* "General"

validCategories ==
  <<<<115,111,102,116,119,97,114,101>>,
    <<112,104,121,115,105,99,97,108>>,
    <<115,101,114,118,105,99,101>>,
    <<105,110,102,111>>,
    <<104,101,97,108,116,104>>>>
  \* software, physical, service, info, health

validPricePoints ==
  <<<<108,111,119>>,
    <<109,101,100,105,117,109>>,
    <<104,105,103,104>>,
    <<112,114,101,109,105,117,109>>>>
  \* low, medium, high, premium

validLevels ==
  <<<<104,105,103,104>>,
    <<109,101,100,105,117,109>>,
    <<108,111,119>>>>
  \* high, medium, low


\* ------------------------------------------------------------------------
\* ContentAnalyzer: the heuristic analysis of a page text
\* ------------------------------------------------------------------------
\* the matches of a global expression in t from position from on, in order;
\* after an empty match the search moves on by one character
RECURSIVE MatchAllFrom(_, _, _)
MatchAllFrom(re, t, from) ==
  IF from > Len(t) + 1 THEN <<>>
  ELSE With(Search(re, t, from, Len(t) + 1),
            LAMBDA m :
              IF ~m.found THEN <<>>
              ELSE <<m>> \o MatchAllFrom(re, t, IF m.end > m.start
                                                THEN m.end ELSE m.end + 1))

\* [...s.matchAll(rx)]
matchAll(s, rx) == With(Subject(rx, s), LAMBDA t : MatchAllFrom(rx.re, t, 1))

\* s.match(rx) for an expression with the g flag: the texts of its matches
matchGlobal(s, rx) ==
  With(matchAll(s, rx), LAMBDA ms : [j \in 1..Len(ms) |-> Whole(s, ms[j])])

\* s with the matches ms replaced by the text by, from match j and
\* position from on
RECURSIVE ReplaceEach(_, _, _, _, _)
ReplaceEach(s, ms, by, j, from) ==
  IF j > Len(ms) THEN SubSeq(s, from, Len(s))
  ELSE SubSeq(s, from, ms[j].start - 1) \o by
       \o ReplaceEach(s, ms, by, j + 1, ms[j].end)

\* s.replace(rx, by) for an expression with the g flag
replaceAll(s, rx, by) ==
  With(matchAll(s, rx), LAMBDA ms : ReplaceEach(s, ms, by, 1, 1))

\* the pieces of s between the matches ms
RECURSIVE Pieces(_, _, _, _)
Pieces(s, ms, j, from) ==
  IF j > Len(ms) THEN <<SubSeq(s, from, Len(s))>>
  ELSE <<SubSeq(s, from, ms[j].start - 1)>> \o Pieces(s, ms, j + 1, ms[j].end)

\* s.split(rx) for an expression that matches no empty text
splitBy(s, rx) == With(matchAll(s, rx), LAMBDA ms : Pieces(s, ms, 1, 1))

\* text.toLowerCase().includes(word) for some word of words
IncludesSome(text, words) == SomeIncluded(toLowerCase(text), words)

\* the first element of a, or default when a is empty
FirstOr(a, default) == IF a # <<>> THEN a[1] ELSE default

cleanProductName(name) ==
  trim(CollapseSpaces(replaceAll(name, nonWordEnds, <<>>)))

\* the name that the loop over healthProductPatterns returns for a pattern
HealthProductOf(markdown, rx) ==
  LET Name(matches) ==
        IF matches # <<>> /\ Len(matches[1]) > 2
        THEN <<cleanProductName(matches[1])>> ELSE <<>>
  IN  With(matchGlobal(markdown, rx), Name)

\* the name taken from the title of the page, if it gives one
TitleNameOf(title) ==
  LET Name(cleanTitle) ==
        IF Len(cleanTitle) > 2 /\ ~includes(toLowerCase(cleanTitle), Clickbank)
        THEN <<cleanProductName(cleanTitle)>> ELSE <<>>
  IN  IF title # Undefined /\ Len(title) > 0 /\ title # Untitled
      THEN With(trim(replaceAll(replace(replace(title, titleSeparator, <<>>),
                                        titleDash, <<>>),
                                nonWordEnds, <<>>)),
                Name)
      ELSE <<>>

\* the names that the loop over salesHeadingPatterns accepts for a pattern
HeadingNamesOf(markdown, rx) ==
  LET Accepted(candidate) ==
        candidate # <<>> /\ Len(candidate) > 3 /\ Len(candidate) < 60
        /\ ~IncludesSome(candidate, headingStopWords)
      Names(ms) ==
        SelectSeq([j \in 1..Len(ms) |->
                     cleanProductName(Group1(markdown, ms[j]))], Accepted)
  IN  With(matchAll(markdown, rx), Names)

ContentAnalyzer_extractProductName(markdown, title) ==
  LET OverPatterns(patterns, Of(_, _)) ==
        Flatten([k \in 1..Len(patterns) |-> Of(markdown, patterns[k])])
      FromHeadings(none) ==
        FirstOr(OverPatterns(salesHeadingPatterns, HeadingNamesOf),
                ProductAnalysis)
      FromTitle(none) ==
        With(TitleNameOf(title),
             LAMBDA names : IF names # <<>> THEN names[1]
                            ELSE FromHeadings(none))
  IN  With(OverPatterns(healthProductPatterns, HealthProductOf),
           LAMBDA names : IF names # <<>> THEN names[1] ELSE FromTitle(names))

\* the benefit that the loop over salesBenefitPatterns returns for a
\* pattern: only the first match of the pattern is looked at
SalesBenefitOf(markdown, rx) ==
  LET Benefit(ms) ==
        IF ms = <<>> THEN <<>>
        ELSE With(trim(Group1(markdown, ms[1])),
                  LAMBDA benefit :
                    IF Len(benefit) > 20
                       /\ ~IncludesSome(benefit, benefitStopWords)
                    THEN <<benefit>> ELSE <<>>)
  IN  With(matchAll(markdown, rx), Benefit)

HeadlineBenefitsOf(markdown, rx) ==
  LET Accepted(headline) ==
        Len(headline) > 25 /\ Len(headline) < 150
        /\ IncludesSome(headline, headlineVerbs)
      Headlines(ms) ==
        SelectSeq([j \in 1..Len(ms) |-> trim(Group1(markdown, ms[j]))],
                  Accepted)
  IN  With(matchAll(markdown, rx), Headlines)

\* the sentences from which the main benefit is taken as a last resort
SentenceBenefits(markdown) ==
  LET Long(sentence) == Len(trim(sentence)) > 30
      Accepted(clean) ==
        Len(clean) > 30 /\ Len(clean) < 150
        /\ ~IncludesSome(clean, sentenceStopWords)
        /\ IncludesSome(clean, sentenceKeywords)
  IN  SelectSeq(TrimAll(slice(SelectSeq(splitBy(markdown, sentenceEnd), Long),
                              10)),
                Accepted)

ContentAnalyzer_extractMainBenefit(markdown) ==
  LET OverPatterns(patterns, Of(_, _)) ==
        Flatten([k \in 1..Len(patterns) |-> Of(markdown, patterns[k])])
      FromSentences(none) ==
        FirstOr(SentenceBenefits(markdown), DefaultMainBenefit)
      FromHeadlines(none) ==
        With(OverPatterns(benefitHeadlinePatterns, HeadlineBenefitsOf),
             LAMBDA found : IF found # <<>> THEN found[1]
                            ELSE FromSentences(none))
  IN  With(OverPatterns(salesBenefitPatterns, SalesBenefitOf),
           LAMBDA found : IF found # <<>> THEN found[1]
                          ELSE FromHeadlines(found))

AudienceOf(markdown, rx) ==
  LET Audience(ms) ==
        IF ms = <<>> THEN <<>>
        ELSE With(trim(OrElse(Group1(markdown, ms[1]), Whole(markdown, ms[1]))),
                  LAMBDA audience :
                    IF Len(audience) > 10
                       /\ ~includes(toLowerCase(audience), UndefinedWord)
                    THEN <<audience>> ELSE <<>>)
  IN  With(matchAll(markdown, rx), Audience)

extractTargetAudience(markdown) ==
  LET found ==
        Flatten([k \in 1..Len(salesAudiencePatterns) |->
                   AudienceOf(markdown, salesAudiencePatterns[k])])
  IN  With(found,
           LAMBDA hits :
             IF hits # <<>> THEN hits[1]
             ELSE IF IncludesSome(markdown, dentalWords) THEN DentalAudience
             ELSE IF IncludesSome(markdown, weightWords) THEN WeightAudience
             ELSE DefaultAudience)

\* the array after the loop over items, which pushes an item and then
\* leaves the loop once the array has cap entries
RECURSIVE PushUntil(_, _, _, _)
PushUntil(acc, items, j, cap) ==
  IF j > Len(items) THEN acc
  ELSE With(Append(acc, items[j]),
            LAMBDA next : IF Len(next) >= cap THEN next
                          ELSE PushUntil(next, items, j + 1, cap))

\* the array after the loops over the patterns k, k + 1, ..., where
\* found[k] lists what the matches of pattern k push
RECURSIVE PushAll(_, _, _, _)
PushAll(acc, found, k, cap) ==
  IF k > Len(found) THEN acc
  ELSE With(PushUntil(acc, found[k], 1, cap),
            LAMBDA next : PushAll(next, found, k + 1, cap))

TestimonialsFor(markdown, rx) ==
  LET Accepted(testimonial) ==
        Len(testimonial) > 30 /\ Len(testimonial) < 300
        /\ ~IncludesSome(testimonial, testimonialStopWords)
      Testimonials(ms) ==
        SelectSeq([j \in 1..Len(ms) |-> trim(Group1(markdown, ms[j]))],
                  Accepted)
  IN  With(matchAll(markdown, rx), Testimonials)

ContentAnalyzer_extractTestimonials(markdown) ==
  With([k \in 1..Len(testimonialPatterns) |->
          TestimonialsFor(markdown, testimonialPatterns[k])],
       LAMBDA found : PushAll(<<>>, found, 1, 5))

ContentAnalyzer_extractSocialProof(markdown) ==
  With([k \in 1..Len(socialProofPatterns) |->
          matchGlobal(markdown, socialProofPatterns[k])],
       LAMBDA found : PushAll(<<>>, found, 1, 5))

ContentAnalyzer_extractGuarantees(markdown) ==
  With([k \in 1..Len(guaranteePatterns) |->
          matchGlobal(markdown, guaranteePatterns[k])],
       LAMBDA found : PushAll(<<>>, found, 1, 3))

\* the match array of the first pattern that matches, or an empty array
FirstMatching(markdown, patterns) ==
  FirstOr(SelectSeq([k \in 1..Len(patterns) |->
                       matchGlobal(markdown, patterns[k])], NonEmpty),
          <<>>)

extractDeliveryTime(markdown) ==
  With(FirstMatching(markdown, deliveryTimePatterns),
       LAMBDA found : IF found # <<>> THEN found[1] ELSE Missing)

\* match[1] is the second match of an expression with the g flag
extractResultsTime(markdown) ==
  With(FirstMatching(markdown, resultPatterns),
       LAMBDA found :
         IF found = <<>> THEN Missing
         ELSE IF Len(found) >= 2 /\ found[2] # <<>> THEN found[2]
         ELSE found[1])

\* words.filter(word => content.includes(word)).length
CountIncluded(content, words) ==
  LET Included(word) == includes(content, word)
  IN  Len(SelectSeq(words, Included))

assessDifficulty(markdown) ==
  LET Level(content) ==
        IF CountIncluded(content, easyWords) > CountIncluded(content, hardWords)
        THEN 3
        ELSE IF CountIncluded(content, hardWords)
                  > CountIncluded(content, easyWords)
        THEN 7
        ELSE 5
  IN  With(toLowerCase(markdown), Level)

PrerequisitesFor(markdown, rx) ==
  LET Texts(ms) == [j \in 1..Len(ms) |-> trim(Group1(markdown, ms[j]))]
  IN  With(slice(matchAll(markdown, rx), 3), Texts)

extractPrerequisites(markdown) ==
  Flatten([k \in 1..Len(prereqPatterns) |->
             PrerequisitesFor(markdown, prereqPatterns[k])])

extractEaseOfUse(markdown) ==
  With(FirstMatching(markdown, easePatterns),
       LAMBDA found : IF found # <<>> THEN found[1] ELSE Missing)

\* ------------------------------------------------------------------------
\* Numbers of JavaScript: the IEEE doubles from 0 to below 8 that are
\* multiples of 2^-56, held as hi * 2^28 + lo in units of 2^-56
\* ------------------------------------------------------------------------
Limb == 268435456  \* 2^28

Double(hi, lo) == [hi |-> hi, lo |-> lo]

Zero == Double(0, 0)  \* 0.0
Tenth == Double(26843545, 161061274)  \* 0.1
FifteenHundredths == Double(40265318, 107374182)  \* 0.15
Fifth == Double(53687091, 53687092)  \* 0.2
Half == Double(134217728, 0)  \* 0.5
SevenTenths == Double(187904819, 53687088)  \* 0.7
One == Double(268435456, 0)  \* 1.0
Three == Double(805306368, 0)  \* 3.0
Five == Double(1342177280, 0)  \* 5.0
Seven == Double(1879048192, 0)  \* 7.0

\* the distance between neighbouring doubles at a value with high limb hi
Ulp(hi) ==
  IF hi >= 4 * Limb THEN 64
  ELSE IF hi >= 2 * Limb THEN 32
  ELSE IF hi >= Limb THEN 16
  ELSE IF hi >= Limb \div 2 THEN 8
  ELSE IF hi >= Limb \div 4 THEN 4
  ELSE IF hi >= Limb \div 8 THEN 2
  ELSE 1

\* a + b: the exact sum rounded to the nearest double, ties to even
DoublePlus(a, b) ==
  LET lo == a.lo + b.lo
      hi == a.hi + b.hi + (lo \div Limb)
      low == lo % Limb
      u == Ulp(hi)
      r == low % u
      down == low - r
      up == 2 * r > u \/ (2 * r = u /\ (down \div u) % 2 = 1)
      rounded == IF up THEN down + u ELSE down
  IN  Double(hi + (rounded \div Limb), rounded % Limb)

\* a > b
DoubleGreater(a, b) == a.hi > b.hi \/ (a.hi = b.hi /\ a.lo > b.lo)

\* Math.min(a, b)
DoubleMin(a, b) == IF DoubleGreater(a, b) THEN b ELSE a

\* the value of s after s += terms[1]; ...; s += terms[j]
RECURSIVE DoubleSum(_, _, _)
DoubleSum(s, terms, j) ==
  IF j = 0 THEN s
  ELSE With(DoubleSum(s, terms, j - 1),
            LAMBDA sum : DoublePlus(sum, terms[j]))

\* ------------------------------------------------------------------------
\* ContentAnalyzer: values of the fields of a record.  A value has a type
\* and, by its type, a number, a text or the texts of an array.
\* ------------------------------------------------------------------------
VUndefined == [type |-> "undefined", num |-> Zero, str |-> <<>>, items |-> <<>>]
VNull == [type |-> "null", num |-> Zero, str |-> <<>>, items |-> <<>>]
VString(s) == [type |-> "string", num |-> Zero, str |-> s, items |-> <<>>]
VNumber(d) == [type |-> "number", num |-> d, str |-> <<>>, items |-> <<>>]
VArray(items) == [type |-> "array", num |-> Zero, str |-> <<>>, items |-> items]

\* whether a || b evaluates to a
Truthy(v) ==
  CASE v.type = "string" -> v.str # <<>>
    [] v.type = "number" -> v.num # Zero
    [] v.type = "array" -> TRUE
    [] OTHER -> FALSE

\* a || b
Or(a, b) == IF Truthy(a) THEN a ELSE b

\* list.includes(v) for a list of strings
IncludesValue(list, v) ==
  v.type = "string" /\ \E j \in 1..Len(list) : list[j] = v.str

\* the sections of a ProductData record and their fields
Sections ==
  [dreamOutcome |->
     {"mainBenefit", "secondaryBenefits", "targetAudience", "emotionalOutcome"},
   perceivedLikelihood |-> {"testimonials", "socialProofNumbers", "guarantees"},
   timeDelay |-> {"deliveryTimeframe", "resultsTimeframe"},
   effortSacrifice |-> {"difficultyLevel", "prerequisites", "easeOfUse"},
   productInfo |-> {"name", "category", "industry", "pricePoint"},
   extractionQuality |->
     {"completenessScore", "confidenceLevel", "missingFields"}]

SectionNames == DOMAIN Sections

\* a JSON value: null, a number, or an object whose properties named like
\* the sections are absent, null, or objects
\* an object with the given properties for the fields of a section
SectionObject(s, props) ==
  [type |-> "object",
   fields |-> [f \in Sections[s] |->
                 IF f \in DOMAIN props THEN props[f] ELSE VUndefined]]

NoFields == [f \in {} |-> VUndefined]

AbsentSection(s) == [SectionObject(s, NoFields) EXCEPT !.type = "undefined"]

NullSection(s) == [SectionObject(s, NoFields) EXCEPT !.type = "null"]

JsonNull ==
  [type |-> "null", sections |-> [s \in SectionNames |-> AbsentSection(s)]]

JsonNumber ==
  [type |-> "number", sections |-> [s \in SectionNames |-> AbsentSection(s)]]

\* the value of a variable that has not been assigned
JsonUndefined ==
  [type |-> "undefined",
   sections |-> [s \in SectionNames |-> AbsentSection(s)]]

JsonObject(sections) ==
  [type |-> "object",
   sections |-> [s \in SectionNames |->
                   IF s \in DOMAIN sections THEN sections[s]
                   ELSE AbsentSection(s)]]

HighLevel == <<104,105,103,104>>  \* "high"
MediumLevel == <<109,101,100,105,117,109>>  \* "medium"
LowLevel == <<108,111,119>>  \* "low"
MainBenefitField == <<109,97,105,110,66,101,110,101,102,105,116>>  \* "mainBenefit"
TargetAudienceField == <<116,97,114,103,101,116,65,117,100,105,101,110,99,101>>  \* "targetAudience"
EmotionalOutcomeField == <<101,109,111,116,105,111,110,97,108,79,117,116,99,111,109,101>>  \* "emotionalOutcome"
TestimonialsField == <<116,101,115,116,105,109,111,110,105,97,108,115>>  \* "testimonials"
SocialProofField == <<115,111,99,105,97,108,80,114,111,111,102>>  \* "socialProof"
GuaranteesField == <<103,117,97,114,97,110,116,101,101,115>>  \* "guarantees"

\* data.section?.field
Opt(data, s, f) ==
  IF data.type = "object" /\ data.sections[s].type = "object"
  THEN data.sections[s].fields[f]
  ELSE VUndefined

validateCategory(category) ==
  IF IncludesValue(validCategories, category) THEN category
  ELSE VString(InfoDefault)

validatePricePoint(pricePoint) ==
  IF IncludesValue(validPricePoints, pricePoint) THEN pricePoint
  ELSE VString(MediumPricePoint)

validateConfidenceLevel(level) ==
  IF IncludesValue(validLevels, level) THEN level
  ELSE VString(MediumLevel)

\* reading a property of null or undefined throws a TypeError
ValidateThrows(data) == data.type \in {"null", "undefined"}

validateAndCleanData(data) ==
  [dreamOutcome |->
     [mainBenefit |-> Or(Opt(data, "dreamOutcome", "mainBenefit"),
                         VString(Missing)),
      secondaryBenefits |-> Or(Opt(data, "dreamOutcome", "secondaryBenefits"),
                               VArray(<<>>)),
      targetAudience |-> Or(Opt(data, "dreamOutcome", "targetAudience"),
                            VString(Missing)),
      emotionalOutcome |-> Or(Opt(data, "dreamOutcome", "emotionalOutcome"),
                              VString(Missing))],
   perceivedLikelihood |->
     [testimonials |-> Or(Opt(data, "perceivedLikelihood", "testimonials"),
                          VArray(<<>>)),
      socialProofNumbers |->
        Or(Opt(data, "perceivedLikelihood", "socialProofNumbers"),
           VArray(<<>>)),
      guarantees |-> Or(Opt(data, "perceivedLikelihood", "guarantees"),
                        VArray(<<>>))],
   timeDelay |->
     [deliveryTimeframe |-> Or(Opt(data, "timeDelay", "deliveryTimeframe"),
                               VString(Missing)),
      resultsTimeframe |-> Or(Opt(data, "timeDelay", "resultsTimeframe"),
                              VString(Missing))],
   effortSacrifice |->
     [difficultyLevel |-> Or(Opt(data, "effortSacrifice", "difficultyLevel"),
                             VNumber(Five)),
      prerequisites |-> Or(Opt(data, "effortSacrifice", "prerequisites"),
                           VArray(<<>>)),
      easeOfUse |-> Or(Opt(data, "effortSacrifice", "easeOfUse"),
                       VString(Missing))],
   productInfo |->
     [name |-> Or(Opt(data, "productInfo", "name"), VString(UnknownProduct)),
      category |-> Or(validateCategory(Opt(data, "productInfo", "category")),
                      VString(InfoDefault)),
      industry |-> Or(Opt(data, "productInfo", "industry"),
                      VString(GeneralIndustry)),
      pricePoint |->
        Or(validatePricePoint(Opt(data, "productInfo", "pricePoint")),
           VString(MediumPricePoint))],
   extractionQuality |->
     [completenessScore |->
        Or(Opt(data, "extractionQuality", "completenessScore"),
           VNumber(Half)),
      confidenceLevel |->
        Or(validateConfidenceLevel(
             Opt(data, "extractionQuality", "confidenceLevel")),
           VString(MediumLevel)),
      missingFields |-> Or(Opt(data, "extractionQuality", "missingFields"),
                           VArray(<<>>))]]

\* what fallbackAnalysis has extracted before it scores
FallbackFindings(markdown, metadata) ==
  [productName |-> ContentAnalyzer_extractProductName(markdown, metadata.title),
   mainBenefit |-> ContentAnalyzer_extractMainBenefit(markdown),
   targetAudience |-> extractTargetAudience(markdown),
   emotionalOutcome |-> EmotionalOutcome,
   testimonials |-> ContentAnalyzer_extractTestimonials(markdown),
   socialProof |-> ContentAnalyzer_extractSocialProof(markdown),
   guarantees |-> ContentAnalyzer_extractGuarantees(markdown)]

\* the verbs one of which the main benefit has to include to be scored
scoredBenefitVerbs ==
  <<<<103,101,116,32>>,
    <<97,99,104,105,101,118,101,32>>,
    <<105,109,112,114,111,118,101,32>>,
    <<100,105,115,99,111,118,101,114,32>>,
    <<101,108,105,109,105,110,97,116,101,32>>,
    <<114,101,100,117,99,101,32>>>>

\* qualityScore of fallbackAnalysis
FallbackQuality(found) ==
  LET Add(condition, amount) == IF condition THEN amount ELSE Zero
  IN  DoubleMin(
        DoubleSum(Tenth,
          <<Add(found.productName # <<>>
                /\ found.productName # UnknownProduct
                /\ found.productName # ProductAnalysis
                /\ Len(found.productName) > 3, FifteenHundredths),
            Add(found.mainBenefit # <<>> /\ Len(found.mainBenefit) > 30
                /\ ~includes(found.mainBenefit, TransformYourResults)
                /\ IncludesSome(found.mainBenefit, scoredBenefitVerbs), Fifth),
            Add(found.targetAudience # <<>>
                /\ found.targetAudience # ProfessionalsAudience
                /\ Len(found.targetAudience) > 10, Tenth),
            Tenth,
            Tenth,
            Add(Len(found.testimonials) > 0, FifteenHundredths),
            Add(Len(found.socialProof) > 0, Tenth),
            Add(Len(found.guarantees) > 0, Tenth)>>, 8),
        One)

\* missingFields of fallbackAnalysis
FallbackMissing(found) ==
  (IF includes(found.mainBenefit, TransformYourResults)
   THEN <<MainBenefitField>> ELSE <<>>)
  \o (IF found.targetAudience = ProfessionalsAudience
      THEN <<TargetAudienceField>> ELSE <<>>)
  \o (IF includes(found.emotionalOutcome, ConfidenceAndSuccess)
      THEN <<EmotionalOutcomeField>> ELSE <<>>)
  \o (IF Len(found.testimonials) = 0 THEN <<TestimonialsField>> ELSE <<>>)
  \o (IF Len(found.socialProof) = 0 THEN <<SocialProofField>> ELSE <<>>)
  \o (IF Len(found.guarantees) = 0 THEN <<GuaranteesField>> ELSE <<>>)

FallbackRecord(markdown, found, qualityScore) ==
  [dreamOutcome |->
     [mainBenefit |-> VString(found.mainBenefit),
      secondaryBenefits |-> VArray(<<>>),
      targetAudience |-> VString(found.targetAudience),
      emotionalOutcome |-> VString(found.emotionalOutcome)],
   perceivedLikelihood |->
     [testimonials |-> VArray(found.testimonials),
      socialProofNumbers |-> VArray(found.socialProof),
      guarantees |-> VArray(found.guarantees)],
   timeDelay |->
     [deliveryTimeframe |-> VString(extractDeliveryTime(markdown)),
      resultsTimeframe |-> VString(extractResultsTime(markdown))],
   effortSacrifice |->
     [difficultyLevel |->
        VNumber(CASE assessDifficulty(markdown) = 3 -> Three
                  [] assessDifficulty(markdown) = 7 -> Seven
                  [] OTHER -> Five),
      prerequisites |-> VArray(extractPrerequisites(markdown)),
      easeOfUse |-> VString(extractEaseOfUse(markdown))],
   productInfo |->
     [name |-> VString(found.productName),
      category |-> Or(validateCategory(VString(HealthCategory)),
                      VString(HealthCategory)),
      industry |-> VString(HealthIndustry),
      pricePoint |-> Or(validatePricePoint(VString(MediumPricePoint)),
                        VString(MediumPricePoint))],
   extractionQuality |->
     [completenessScore |-> VNumber(qualityScore),
      confidenceLevel |->
        VString(IF DoubleGreater(qualityScore, SevenTenths) THEN HighLevel
                ELSE IF DoubleGreater(qualityScore, Half) THEN MediumLevel
                ELSE LowLevel),
      missingFields |-> VArray(FallbackMissing(found))]]

fallbackAnalysis(markdown, metadata) ==
  With(FallbackFindings(markdown, metadata),
       LAMBDA found :
         With(FallbackQuality(found),
              LAMBDA qualityScore :
                FallbackRecord(markdown, found, qualityScore)))


\* ------------------------------------------------------------------------
\* Answers of the remote back-ends
\* ------------------------------------------------------------------------
Response(kind, success, error, markdown, html) ==
  [kind |-> kind, success |-> success, error |-> error,
   markdown |-> markdown, html |-> html]

NoResponse == Response("none", FALSE, "", "", "")

\* firecrawlApp.scrapeUrl: throws (a rejected request, or an answer without
\* a body, which the caller's read of .success turns into a TypeError),
\* refuses, or returns a page
FcThrown ==
  { Response("thrown", FALSE, "Request failed with status code 502", "", "") }

FcRefused ==
  { Response("returned", FALSE, "", "", ""),
    Response("returned", FALSE, "Rate limit exceeded", "", "") }

FcPages ==
  { Response("returned", TRUE, "", "", ""),
    Response("returned", TRUE, "", "# Acme", ""),
    Response("returned", TRUE, "", "", "<h1>Acme</h1>") }

FcResponses == FcThrown \cup FcRefused \cup FcPages

\* POST /acts/apify~web-scraper/runs
ApRunAnswers == {"rejected", "status 500", "malformed", "started"}

\* GET /actor-runs/{id}
ApStatusAnswers == {"rejected", "malformed", "RUNNING", "SUCCEEDED", "FAILED"}

\* GET /datasets/{id}/items
ApDatasetAnswers == {"rejected", "empty", "record"}

\* ------------------------------------------------------------------------
\* Inputs
\* ------------------------------------------------------------------------
Urls == {UrlPlain, UrlWix, UrlMalformed}

PreferredServices == {"auto", "firecrawl", "apify"}

\* localStorage: readable or not, and the credentials it holds
Storages ==
  { [available |-> TRUE, firecrawl_api_key |-> f, apify_api_token |-> t,
     openrouter_api_key |-> FALSE, perplexity_api_key |-> FALSE] :
      f \in BOOLEAN, t \in BOOLEAN }
  \cup { [available |-> FALSE, firecrawl_api_key |-> FALSE,
          apify_api_token |-> FALSE, openrouter_api_key |-> FALSE,
          perplexity_api_key |-> FALSE] }

\* localStorage with every credential
AllCredentials ==
  [available |-> TRUE, firecrawl_api_key |-> TRUE, apify_api_token |-> TRUE,
   openrouter_api_key |-> TRUE, perplexity_api_key |-> TRUE]

TickSteps == {1, CACHE_TTL}

VARIABLES
  cache,             \* FirecrawlService.cache
  cacheTimestamps,   \* FirecrawlService.cacheTimestamps
  storage,           \* localStorage
  now,               \* Date.now()
  ticks,             \* number of clock steps taken
  pc,                \* position of the scrapeURL call in flight
  url,               \* its url argument
  preferredService,  \* its preferredService argument
  service,           \* the primary back-end
  startedAt,         \* startTime of the call
  stage,             \* "primary" or "fallback"
  attempt,           \* loop variable of the retry loop
  delay,             \* delay of the timer the retry loop waits on (0: none)
  lastError,         \* lastError of the retry loop ("" for null)
  scrapeResponse,    \* scrapeResponse of the retry loop
  i,                 \* loop variable of pollForCompletion
  status,            \* status of pollForCompletion ("" while not set)
  adapterResult,     \* value returned by the adapter last called
  result,            \* result of scrapeURL
  outcome,           \* "pending", "returned" or "thrown"
  exc,               \* the exception in flight or escaped ("" for none)
  log,               \* remote scrape attempts of this call, in order
  prev,              \* the call completed before this one
  nreq,              \* number of calls completed
  lastPut,           \* last setCachedResult of a successful result
  got,               \* last getCachedResult and what it returned
  born,              \* insertion number of each key, at its insertion
  nputs,             \* number of setCachedResult calls
  scrapedData,       \* argument of analyzeScrapedContent
  affiliatePage,     \* isAffiliatePage of the extractor and of the scorer
  analyzed,          \* what analyzeScrapedContent returned
  extractedData,     \* argument of calculateQualityScore
  extractionMethod,  \* argument of determineConfidence
  scored,            \* what the scorer returned, now and before
  pageData,          \* scrapedData argument of ContentAnalyzer.analyzeContent
  step,              \* position of the analyzeContent call
  structuredData,    \* structuredData of analyzeContent
  productData,       \* what analyzeContent returned
  analysisOutcome,   \* "pending", "returned" or "thrown"
  completions,       \* completion requests sent by the call, in order
  replies,           \* what the completion back-ends did with them, in order
  strategy,          \* the strategy whose record the call returned
  analysis,          \* what IntelligentScraper.analyzeURL returned
  urls,              \* urls argument of scrapeMultipleUrls
  position,          \* index of the url its loop is at (0 before the call)
  results,           \* results of scrapeMultipleUrls
  events,            \* starts, ends and delays of its scrapes, in order
  batchReturn,       \* what scrapeMultipleUrls returned
  mergePrimary,      \* primary argument of mergeExtractedData
  mergeSecondary,    \* its secondary argument
  merged,            \* what it returned
  measured,          \* completeness score and missing fields of extractedData
  calls,             \* the concurrent scrapeWebsite calls, by number
  cacheLog           \* the writes and clears of the cache they made, in order

cacheVars == <<cache, cacheTimestamps>>
clockVars == <<now, ticks>>
callVars == <<url, preferredService, service, startedAt>>
retryVars == <<attempt, delay, lastError, scrapeResponse>>
reqVars ==
  <<pc, callVars, stage, retryVars, i, status, adapterResult, result,
    outcome, exc, log>>
histVars == <<prev, nreq>>
unitVars == <<lastPut, got, born, nputs>>
extractVars == <<scrapedData, affiliatePage, analyzed>>
scoreVars == <<extractedData, extractionMethod, scored>>
contentVars ==
  <<pageData, step, structuredData, productData, analysisOutcome, completions,
    replies, strategy>>
classVars == <<analysis>>
batchVars == <<urls, position, results, events, batchReturn>>
pureVars == <<mergePrimary, mergeSecondary, merged, measured>>
concVars == <<calls, cacheLog>>
moreVars == <<classVars, batchVars, pureVars, concVars>>
analysisVars == <<extractVars, scoreVars, contentVars, moreVars>>
envVars == <<storage, clockVars, histVars, unitVars, analysisVars>>
vars ==
  <<cacheVars, storage, clockVars, reqVars, histVars, unitVars, analysisVars>>

NoResult == [success |-> FALSE, error |-> "", method |-> "", data |-> NoData]
NoPrev == [ok |-> FALSE, url |-> <<>>, startedAt |-> 0]
NoPut ==
  [valid |-> FALSE, url |-> <<>>, result |-> Failure(""), at |-> 0, n |-> 0]
NoGet == [valid |-> FALSE, url |-> <<>>, value |-> <<>>, at |-> 0]

IdleRequest ==
  /\ pc = "idle"
  /\ url = <<>>
  /\ preferredService = "auto"
  /\ service = "firecrawl"
  /\ startedAt = 0
  /\ stage = "primary"
  /\ attempt = 0
  /\ delay = 0
  /\ lastError = ""
  /\ scrapeResponse = NoResponse
  /\ i = 0
  /\ status = ""
  /\ adapterResult = Failure("")
  /\ result = NoResult
  /\ outcome = "pending"
  /\ exc = ""
  /\ log = <<>>

\* no content analysis is under way
NoScrapedData == [json |-> NoJson, markdown |-> Undefined, html |-> NoHtml]

NoAnalysis ==
  [extractedData |-> getEmptyExtractedData,
   qualityScore |-> Num(0),
   completenessScore |-> [num |-> 0, den |-> 1],
   missingFields |-> <<>>,
   confidence |-> "",
   extractionMethod |-> ""]

NotScored ==
  [done |-> FALSE, qualityScore |-> Num(0), confidence |-> "",
   grown |-> FALSE, before |-> Num(0)]

\* a payload of analyzeContent: null, a number, or an object with its
\* markdown and metadata properties
Payload(type, markdown, metadata) ==
  [type |-> type, markdown |-> markdown, metadata |-> metadata]

NoMetadata == [present |-> FALSE, title |-> Undefined]

Metadata(title) == [present |-> TRUE, title |-> title]

NullPayload == Payload("null", Undefined, NoMetadata)

NoProductData ==
  [s \in SectionNames |-> [f \in Sections[s] |-> VUndefined]]

\* no analyzeContent call is under way
IdleContent ==
  /\ pageData = NullPayload
  /\ step = "idle"
  /\ structuredData = JsonUndefined
  /\ productData = NoProductData
  /\ analysisOutcome = "pending"
  /\ completions = <<>>
  /\ replies = <<>>
  /\ strategy = ""

IdleExtraction ==
  /\ scrapedData = NoScrapedData
  /\ affiliatePage = FALSE
  /\ analyzed = NoAnalysis
  /\ extractedData = getEmptyExtractedData
  /\ extractionMethod = ""
  /\ scored = NotScored

\* no operation that is driven on its own is under way
NoBatchReturn ==
  [done |-> FALSE, results |-> <<>>,
   summary |-> [total |-> 0, successful |-> 0, failed |-> 0]]

IdleBatch ==
  /\ urls = <<>>
  /\ position = 0
  /\ results = <<>>
  /\ events = <<>>
  /\ batchReturn = NoBatchReturn

NotMerged == [done |-> FALSE, data |-> getEmptyExtractedData]

NotMeasured ==
  [scored |-> FALSE, completenessScore |-> [num |-> 0, den |-> 1],
   listed |-> FALSE, missingFields |-> <<>>]

IdlePure ==
  /\ mergePrimary = getEmptyExtractedData
  /\ mergeSecondary = <<>>
  /\ merged = NotMerged
  /\ measured = NotMeasured

IdleConcurrent ==
  /\ calls = <<>>
  /\ cacheLog = <<>>

IdleMore ==
  /\ analysis = NoURLAnalysis
  /\ IdleBatch
  /\ IdlePure
  /\ IdleConcurrent

IdleAnalysis ==
  /\ IdleExtraction
  /\ IdleContent
  /\ IdleMore

Init ==
  /\ cache = <<>>
  /\ cacheTimestamps = <<>>
  /\ storage \in Storages
  /\ now = 1
  /\ ticks = 0
  /\ IdleRequest
  /\ prev = NoPrev
  /\ nreq = 0
  /\ lastPut = NoPut
  /\ got = NoGet
  /\ born = <<>>
  /\ nputs = 0
  /\ IdleAnalysis

\* ------------------------------------------------------------------------
\* try/catch structure: where an exception thrown at a site is caught
\* ------------------------------------------------------------------------
\* variant: the adapter calls of scrapeURL stand outside its try block
CatchOfNoOuterTry(site) ==
  CASE site = "scrapeURL.analyzeURL" -> "escaped"
    [] site = "scrapeWebsite.getApiKey" -> "escaped"
    [] site = "scrapeWebsite.getApiToken" -> "escaped"
    [] site = "scrapeWebsite.attempt" -> "fc_retry_catch"
    [] site = "scrapeWebsite.body" -> "fc_catch"
    [] site = "scrapeWebsite.run" -> "ap_catch"
    [] site = "pollForCompletion" -> "ap_catch"

CatchOf(site) ==
  CASE site = "scrapeURL.analyzeURL" -> "escaped"
    [] site = "scrapeWebsite.getApiKey" -> "orch_catch"
    [] site = "scrapeWebsite.getApiToken" -> "orch_catch"
    [] site = "scrapeWebsite.attempt" -> "fc_retry_catch"
    [] site = "scrapeWebsite.body" -> "fc_catch"
    [] site = "scrapeWebsite.run" -> "ap_catch"
    [] site = "pollForCompletion" -> "ap_catch"

AdapterEntry(s) == IF s = "firecrawl" THEN "fc_start" ELSE "ap_start"

\* Date.now() moves on while no call is in flight and while a call is
\* suspended on its request to a back-end
Tick ==
  /\ pc \in {"idle", "fc_attempt", "ap_run"}
  /\ ticks < MaxTicks
  /\ \E d \in TickSteps : now' = now + d
  /\ ticks' = ticks + 1
  /\ UNCHANGED <<cacheVars, storage, reqVars, histVars, unitVars,
                 analysisVars>>

\* ------------------------------------------------------------------------
\* IntelligentScraper.scrapeURL, up to the call of the primary adapter
\* ------------------------------------------------------------------------
ScrapeURL(u, p) ==
  /\ pc = "idle"
  /\ nreq < MaxRequests
  /\ url' = u
  /\ preferredService' = p
  /\ startedAt' = now
  /\ IF ~IsWellFormed(u)
     THEN \* new URL(url) throws in analyzeURL
          /\ exc' = "Invalid URL"
          /\ pc' = CatchOf("scrapeURL.analyzeURL")
          /\ UNCHANGED service
     ELSE /\ service' = IF p = "auto" THEN recommendedService(u) ELSE p
          /\ pc' = AdapterEntry(service')
          /\ UNCHANGED exc
  /\ UNCHANGED <<cacheVars, envVars, stage, retryVars, i, status, adapterResult,
                 result, outcome, log>>

\* ------------------------------------------------------------------------
\* FirecrawlService.scrapeWebsite
\* ------------------------------------------------------------------------
\* cache lookup, validateUrl, getApiKey
FcStart ==
  /\ pc = "fc_start"
  /\ LET cached == getCachedResult(cache, cacheTimestamps, url, now)
     IN  IF cached # <<>>
         THEN /\ adapterResult' = cached[1]
              /\ pc' = "orch_after"
              /\ UNCHANGED <<exc, retryVars>>
         ELSE IF ~IsWellFormed(url)
         THEN /\ adapterResult' = Failure("Invalid URL")
              /\ pc' = "orch_after"
              /\ UNCHANGED <<exc, retryVars>>
         ELSE IF ~storage.available
         THEN /\ exc' = "SecurityError"
              /\ pc' = CatchOf("scrapeWebsite.getApiKey")
              /\ UNCHANGED <<adapterResult, retryVars>>
         ELSE IF ~storage.firecrawl_api_key
         THEN /\ adapterResult' = Failure("Firecrawl API key not found. Please add your API key in settings.")
              /\ pc' = "orch_after"
              /\ UNCHANGED <<exc, retryVars>>
         ELSE /\ attempt' = 1
              /\ delay' = 0
              /\ lastError' = ""
              /\ scrapeResponse' = NoResponse
              /\ pc' = "fc_attempt"
              /\ UNCHANGED <<exc, adapterResult>>
  /\ UNCHANGED <<cacheVars, envVars, callVars, stage, i, status, result, outcome, log>>

\* one pass of the retry loop: scrapeAffiliatePage or scrapeRegularPage
FcAttempt(resp) ==
  /\ pc = "fc_attempt"
  /\ log' = Append(log, [backend |-> "firecrawl",
                         answer |-> IF resp.kind = "thrown" THEN "thrown"
                                    ELSE IF resp.success THEN "page"
                                    ELSE "refused",
                         content |-> resp.markdown # "" \/ resp.html # "",
                         profile |-> IF isAffiliatePage(url) THEN "affiliate"
                                     ELSE "regular"])
  /\ IF resp.kind = "thrown"
     THEN /\ exc' = resp.error
          /\ pc' = CatchOf("scrapeWebsite.attempt")
          /\ UNCHANGED scrapeResponse
     ELSE \* break
          /\ scrapeResponse' = resp
          /\ pc' = "fc_after_loop"
          /\ UNCHANGED exc
  /\ UNCHANGED <<cacheVars, envVars, callVars, stage, attempt, delay,
                 lastError, i, status, adapterResult, result, outcome>>

\* variant: the catch clause waits after the last attempt as well
FcRetryCatchAlwaysWaits ==
  /\ pc = "fc_retry_catch"
  /\ lastError' = exc
  /\ exc' = ""
  /\ delay' = (2 ^ (attempt - 1)) * 1000
  /\ pc' = "fc_backoff"
  /\ UNCHANGED <<cacheVars, envVars, callVars, stage, attempt,
                 scrapeResponse, i, status, adapterResult, result, outcome,
                 log>>

\* the catch clause of the retry loop: it sets the timer of the backoff,
\* or after the last attempt leaves the loop
FcRetryCatch ==
  /\ pc = "fc_retry_catch"
  /\ lastError' = exc
  /\ exc' = ""
  /\ IF attempt < maxRetries
     THEN /\ delay' = (2 ^ (attempt - 1)) * 1000
          /\ pc' = "fc_backoff"
          /\ UNCHANGED attempt
     ELSE /\ attempt' = attempt + 1
          /\ pc' = "fc_after_loop"
          /\ UNCHANGED delay
  /\ UNCHANGED <<cacheVars, envVars, callVars, stage, scrapeResponse, i,
                 status, adapterResult, result, outcome, log>>

\* the timer of the backoff fires, delay milliseconds after it was set: the
\* next pass of the loop begins.  Nothing reads the clock between the two
\* passes, so the time the wait takes is part of what Tick lets pass while
\* the next request is in flight.
FcBackoff ==
  /\ pc = "fc_backoff"
  /\ delay' = 0
  /\ attempt' = attempt + 1
  /\ pc' = "fc_attempt"
  /\ UNCHANGED <<cacheVars, envVars, callVars, stage, lastError,
                 scrapeResponse, i, status, adapterResult, result, outcome,
                 exc, log>>

\* variant: the placeholder result is written to the cache as well
FcFinishCachesPlaceholder(u, lastErr, resp, c, timestamps, t) ==
  IF lastErr # ""
  THEN [thrown |-> lastErr, ret |-> Failure(""),
        cache |-> c, cacheTimestamps |-> timestamps]
  ELSE IF ~resp.success
  THEN [thrown |-> "",
        ret |-> Failure(IF resp.error # "" THEN resp.error
                        ELSE "Failed to scrape website"),
        cache |-> c, cacheTimestamps |-> timestamps]
  ELSE LET r == IF resp.markdown = "" /\ resp.html = ""
                THEN Success(FcData(PlaceholderMarkdown, "", FALSE))
                ELSE Success(FcData(resp.markdown, resp.html,
                                    isAffiliatePage(u)))
           maps == setCachedResult(c, timestamps, u, r, t)
       IN  [thrown |-> "", ret |-> r,
            cache |-> maps.cache, cacheTimestamps |-> maps.cacheTimestamps]

\* scrapeWebsite after the retry loop: what it throws or returns, and the
\* cache it leaves
FcFinish(u, lastErr, resp, c, timestamps, t) ==
  IF lastErr # ""
  THEN [thrown |-> lastErr, ret |-> Failure(""),
        cache |-> c, cacheTimestamps |-> timestamps]
  ELSE IF ~resp.success
  THEN [thrown |-> "",
        ret |-> Failure(IF resp.error # "" THEN resp.error
                        ELSE "Failed to scrape website"),
        cache |-> c, cacheTimestamps |-> timestamps]
  ELSE IF resp.markdown = "" /\ resp.html = ""
  THEN [thrown |-> "",
        ret |-> Success(FcData(PlaceholderMarkdown, "", FALSE)),
        cache |-> c, cacheTimestamps |-> timestamps]
  ELSE LET r == Success(FcData(resp.markdown, resp.html, isAffiliatePage(u)))
           maps == setCachedResult(c, timestamps, u, r, t)
       IN  [thrown |-> "", ret |-> r,
            cache |-> maps.cache, cacheTimestamps |-> maps.cacheTimestamps]

FcAfterLoop ==
  /\ pc = "fc_after_loop"
  /\ LET f == FcFinish(url, lastError, scrapeResponse, cache,
                       cacheTimestamps, now)
     IN  /\ cache' = f.cache
         /\ cacheTimestamps' = f.cacheTimestamps
         /\ IF f.thrown # ""
            THEN /\ exc' = f.thrown
                 /\ pc' = CatchOf("scrapeWebsite.body")
                 /\ UNCHANGED adapterResult
            ELSE /\ adapterResult' = f.ret
                 /\ pc' = "orch_after"
                 /\ UNCHANGED exc
  /\ attempt' = 0
  /\ delay' = 0
  /\ lastError' = ""
  /\ scrapeResponse' = NoResponse
  /\ UNCHANGED <<envVars, callVars, stage, i, status, result, outcome, log>>

\* the outer catch clause of scrapeWebsite
FcCatch ==
  /\ pc = "fc_catch"
  /\ adapterResult' = Failure(exc)
  /\ exc' = ""
  /\ pc' = "orch_after"
  /\ UNCHANGED <<cacheVars, envVars, callVars, stage, retryVars, i, status, result,
                 outcome, log>>

\* ------------------------------------------------------------------------
\* ApifyService.scrapeWebsite
\* ------------------------------------------------------------------------
ApStart ==
  /\ pc = "ap_start"
  /\ IF ~storage.available
     THEN /\ exc' = "SecurityError"
          /\ pc' = CatchOf("scrapeWebsite.getApiToken")
          /\ UNCHANGED adapterResult
     ELSE IF ~storage.apify_api_token
     THEN /\ adapterResult' = Failure("Apify token not found")
          /\ pc' = "orch_after"
          /\ UNCHANGED exc
     ELSE /\ pc' = "ap_run"
          /\ UNCHANGED <<exc, adapterResult>>
  /\ UNCHANGED <<cacheVars, envVars, callVars, stage, retryVars, i, status, result,
                 outcome, log>>

\* start the Web Scraper actor
ApRun(answer) ==
  /\ pc = "ap_run"
  /\ IF answer = "started"
     THEN /\ i' = 0
          /\ status' = ""
          /\ pc' = "ap_poll"
          /\ UNCHANGED exc
     ELSE /\ exc' = CASE answer = "rejected" -> "Failed to fetch"
                      [] answer = "status 500" ->
                           "Failed to start Apify scraper: 500"
                      [] answer = "malformed" ->
                           "Cannot read properties of undefined"
          /\ pc' = CatchOf("scrapeWebsite.run")
          /\ UNCHANGED <<i, status>>
  /\ UNCHANGED <<cacheVars, envVars, callVars, stage, retryVars,
                 adapterResult, result, outcome, log>>

\* variant: a FAILED run is polled again like a run that has not finished
ApPollIgnoresFailed(answer) ==
  /\ pc = "ap_poll"
  /\ i < maxAttempts
  /\ status' = IF answer \in {"rejected", "malformed"} THEN "" ELSE answer
  /\ IF answer = "SUCCEEDED"
     THEN /\ pc' = "ap_dataset"
          /\ i' = 0
          /\ UNCHANGED exc
     ELSE IF answer \in {"RUNNING", "FAILED"}
     THEN /\ i' = i + 1
          /\ UNCHANGED <<exc, pc>>
     ELSE /\ exc' = CASE answer = "rejected" -> "Failed to fetch"
                      [] answer = "malformed" ->
                           "Cannot read properties of undefined"
          /\ pc' = CatchOf("pollForCompletion")
          /\ i' = 0
  /\ UNCHANGED <<cacheVars, envVars, callVars, stage, retryVars,
                 adapterResult, result, outcome, log>>

\* one pass of the loop of pollForCompletion
ApPoll(answer) ==
  /\ pc = "ap_poll"
  /\ i < maxAttempts
  /\ status' = IF answer \in {"rejected", "malformed"} THEN "" ELSE answer
  /\ IF answer = "SUCCEEDED"
     THEN /\ pc' = "ap_dataset"
          /\ i' = 0
          /\ UNCHANGED exc
     ELSE IF answer = "RUNNING"
     THEN /\ i' = i + 1
          /\ UNCHANGED <<exc, pc>>
     ELSE /\ exc' = CASE answer = "rejected" -> "Failed to fetch"
                      [] answer = "malformed" ->
                           "Cannot read properties of undefined"
                      [] answer = "FAILED" -> "Apify scraping failed"
          /\ pc' = CatchOf("pollForCompletion")
          /\ i' = 0
  /\ UNCHANGED <<cacheVars, envVars, callVars, stage, retryVars,
                 adapterResult, result, outcome, log>>

\* the loop of pollForCompletion ran out
ApTimeout ==
  /\ pc = "ap_poll"
  /\ i >= maxAttempts
  /\ exc' = "Apify scraping timeout"
  /\ pc' = CatchOf("pollForCompletion")
  /\ i' = 0
  /\ status' = ""
  /\ UNCHANGED <<cacheVars, envVars, callVars, stage, retryVars,
                 adapterResult, result, outcome, log>>

\* fetch the dataset items and return results[0] || {}
ApDataset(answer) ==
  /\ pc = "ap_dataset"
  /\ IF answer = "rejected"
     THEN /\ exc' = "Failed to fetch"
          /\ pc' = CatchOf("pollForCompletion")
          /\ UNCHANGED <<adapterResult, log>>
     ELSE /\ adapterResult' =
               Success(ApData(IF answer = "empty" THEN "{}" ELSE "record"))
          /\ log' = Append(log, [backend |-> "apify", answer |-> "page",
                                 content |-> answer # "empty"])
          /\ pc' = "orch_after"
          /\ UNCHANGED exc
  /\ status' = ""
  /\ UNCHANGED <<cacheVars, envVars, callVars, stage, retryVars, i, result,
                 outcome>>

\* the catch clause of ApifyService.scrapeWebsite
ApCatch ==
  /\ pc = "ap_catch"
  /\ adapterResult' = Failure(exc)
  /\ log' = Append(log, [backend |-> "apify", answer |-> "thrown",
                         content |-> FALSE])
  /\ exc' = ""
  /\ status' = ""
  /\ pc' = "orch_after"
  /\ UNCHANGED <<cacheVars, envVars, callVars, stage, retryVars, i, result,
                 outcome>>

\* ------------------------------------------------------------------------
\* IntelligentScraper.scrapeURL, after an adapter has returned
\* ------------------------------------------------------------------------
\* result once the primary adapter has returned r
PrimaryResult(s, r) ==
  [success |-> r.success, error |-> r.error, method |-> s,
   data |-> RawOf(r.data)]

\* variant: the fallback result is tagged with the name of the primary
FallbackResultTagsPrimary(s, primary, r) ==
  IF r.success
  THEN [success |-> TRUE, error |-> "",
        method |-> IF s = "apify" THEN "apify-fallback"
                   ELSE "firecrawl-fallback",
        data |-> RawOf(r.data)]
  ELSE primary

\* result once the fallback adapter has returned r
FallbackResult(s, primary, r) ==
  IF r.success
  THEN [success |-> TRUE, error |-> "",
        method |-> IF OtherService(s) = "apify" THEN "apify-fallback"
                   ELSE "firecrawl-fallback",
        data |-> RawOf(r.data)]
  ELSE primary

OrchAfter ==
  /\ pc = "orch_after"
  /\ IF stage = "primary"
     THEN /\ result' = PrimaryResult(service, adapterResult)
          /\ IF ~adapterResult.success
             THEN /\ stage' = "fallback"
                  /\ pc' = AdapterEntry(OtherService(service))
                  /\ UNCHANGED outcome
             ELSE /\ outcome' = "returned"
                  /\ pc' = "done"
                  /\ UNCHANGED stage
     ELSE /\ result' = FallbackResult(service, result, adapterResult)
          /\ outcome' = "returned"
          /\ pc' = "done"
          /\ UNCHANGED stage
  /\ UNCHANGED <<cacheVars, envVars, callVars, retryVars, i, status, adapterResult,
                 exc, log>>

\* the catch clause of scrapeURL
OrchCatch ==
  /\ pc = "orch_catch"
  /\ result' = [success |-> FALSE, error |-> exc, method |-> "failed",
                data |-> NoData]
  /\ exc' = ""
  /\ outcome' = "returned"
  /\ pc' = "done"
  /\ UNCHANGED <<cacheVars, envVars, callVars, stage, retryVars, i, status,
                 adapterResult, log>>

\* an exception no catch clause covers rejects the promise of scrapeURL
Escape ==
  /\ pc = "escaped"
  /\ outcome' = "thrown"
  /\ pc' = "done"
  /\ UNCHANGED <<cacheVars, envVars, callVars, stage, retryVars, i, status,
                 adapterResult, result, exc, log>>

\* the caller has the outcome; the next call may start
Settle ==
  /\ pc = "done"
  /\ prev' = IF outcome = "returned" /\ result.success
                  /\ HasContent(result.data)
              THEN [ok |-> TRUE, url |-> url, startedAt |-> startedAt]
              ELSE NoPrev
  /\ nreq' = nreq + 1
  /\ pc' = "idle"
  /\ url' = <<>>
  /\ preferredService' = "auto"
  /\ service' = "firecrawl"
  /\ startedAt' = 0
  /\ stage' = "primary"
  /\ attempt' = 0
  /\ delay' = 0
  /\ lastError' = ""
  /\ scrapeResponse' = NoResponse
  /\ i' = 0
  /\ status' = ""
  /\ adapterResult' = Failure("")
  /\ result' = NoResult
  /\ outcome' = "pending"
  /\ exc' = ""
  /\ log' = <<>>
  /\ UNCHANGED <<cacheVars, storage, clockVars, unitVars, analysisVars>>

Next ==
  \/ Tick
  \/ \E u \in Urls, p \in PreferredServices : ScrapeURL(u, p)
  \/ FcStart
  \/ \E resp \in FcResponses : FcAttempt(resp)
  \/ FcRetryCatch
  \/ FcBackoff
  \/ FcAfterLoop
  \/ FcCatch
  \/ ApStart
  \/ \E answer \in ApRunAnswers : ApRun(answer)
  \/ \E answer \in ApStatusAnswers : ApPoll(answer)
  \/ ApTimeout
  \/ \E answer \in ApDatasetAnswers : ApDataset(answer)
  \/ ApCatch
  \/ OrchAfter
  \/ OrchCatch
  \/ Escape
  \/ Settle

Spec == Init /\ [][Next]_vars

\* ------------------------------------------------------------------------
\* The result cache driven on its own: getCachedResult, setCachedResult
\* and clearCache called in any order, on a cache that earlier scrapes
\* have filled
\* ------------------------------------------------------------------------
Digit(n) == 48 + n

\* "f001", "f002", ...
FillerKey(j) ==
  <<102, Digit(j \div 100), Digit((j \div 10) % 10), Digit(j % 10)>>

FillerResult == Success(FcData("# Filler", "", FALSE))

Prefills == {0, MaxCacheSize - 1, MaxCacheSize}

PutUrls == {UrlPlain, UrlPlainVariant, UrlWix}

PutResults ==
  { Success(FcData("# Acme", "", FALSE)),
    Success(FcData("", "<h1>Acme</h1>", FALSE)),
    Failure("Failed to scrape website") }

InitCache ==
  /\ \E n \in Prefills :
       /\ cache = [j \in 1..n |-> [key |-> FillerKey(j), value |-> FillerResult]]
       /\ cacheTimestamps = [j \in 1..n |-> [key |-> FillerKey(j), value |-> 1]]
       /\ born = [j \in 1..n |-> [key |-> FillerKey(j), value |-> j]]
  /\ storage = AllCredentials
  /\ now = 1
  /\ ticks = 0
  /\ IdleRequest
  /\ prev = NoPrev
  /\ nreq = 0
  /\ lastPut = NoPut
  /\ got = NoGet
  /\ nputs = 0
  /\ IdleAnalysis

Put(u, r) ==
  /\ nputs < MaxPuts
  /\ nputs' = nputs + 1
  /\ LET maps == setCachedResult(cache, cacheTimestamps, u, r, now)
     IN  /\ cache' = maps.cache
         /\ cacheTimestamps' = maps.cacheTimestamps
  /\ lastPut' = IF r.success
                THEN [valid |-> TRUE, url |-> u, result |-> r, at |-> now,
                      n |-> nputs + 1]
                ELSE lastPut
  /\ born' = IF r.success /\ ~MapHas(cache, trim(toLowerCase(u)))
             THEN MapSet(born, trim(toLowerCase(u)), MaxCacheSize + nputs + 1)
             ELSE born
  /\ got' = NoGet
  /\ UNCHANGED <<storage, clockVars, reqVars, histVars, analysisVars>>

\* variant: a lookup that finds an expired entry deletes it
GetDeletesExpired(u) ==
  /\ got' = [valid |-> TRUE, url |-> u,
             value |-> getCachedResult(cache, cacheTimestamps, u, now),
             at |-> now]
  /\ IF MapHas(cache, getCacheKey(u))
        /\ ~isCacheValid(cacheTimestamps, getCacheKey(u), now)
     THEN /\ cache' = MapDelete(cache, getCacheKey(u))
          /\ cacheTimestamps' = MapDelete(cacheTimestamps, getCacheKey(u))
     ELSE UNCHANGED cacheVars
  /\ UNCHANGED <<storage, clockVars, reqVars, histVars, lastPut,
                 born, nputs, analysisVars>>

Get(u) ==
  /\ got' = [valid |-> TRUE, url |-> u,
             value |-> getCachedResult(cache, cacheTimestamps, u, now),
             at |-> now]
  /\ UNCHANGED <<cacheVars, storage, clockVars, reqVars, histVars, lastPut,
                 born, nputs, analysisVars>>

ClearCache ==
  /\ cache' = <<>>
  /\ cacheTimestamps' = <<>>
  /\ lastPut' = NoPut
  /\ got' = NoGet
  /\ born' = <<>>
  /\ UNCHANGED <<storage, clockVars, reqVars, histVars, nputs,
                 analysisVars>>

NextCache ==
  \/ Tick
  \/ \E u \in PutUrls, r \in PutResults : Put(u, r)
  \/ \E u \in PutUrls : Get(u)
  \/ ClearCache

SpecCache == InitCache /\ [][NextCache]_vars

\* ------------------------------------------------------------------------
\* The same operations on a full cache whose first scrape was that of a
\* URL that is put again: the entry of UrlPlain was stored first, the
\* filler entries after it
\* ------------------------------------------------------------------------
RestoredKey(j) == IF j = 1 THEN getCacheKey(UrlPlain) ELSE FillerKey(j)

InitReput ==
  /\ cache = [j \in 1..MaxCacheSize |->
                [key |-> RestoredKey(j), value |-> FillerResult]]
  /\ cacheTimestamps = [j \in 1..MaxCacheSize |->
                          [key |-> RestoredKey(j), value |-> 1]]
  /\ born = [j \in 1..MaxCacheSize |-> [key |-> RestoredKey(j), value |-> j]]
  /\ storage = AllCredentials
  /\ now = 1
  /\ ticks = 0
  /\ IdleRequest
  /\ prev = NoPrev
  /\ nreq = 0
  /\ lastPut = NoPut
  /\ got = NoGet
  /\ nputs = 0
  /\ IdleAnalysis

SpecReput == InitReput /\ [][NextCache]_vars


\* ------------------------------------------------------------------------
\* The extractor driven on its own: analyzeScrapedContent applied to a page
\* ------------------------------------------------------------------------
\* the scraper at rest
QuietService ==
  /\ cache = <<>>
  /\ cacheTimestamps = <<>>
  /\ now = 1
  /\ ticks = 0
  /\ IdleRequest
  /\ prev = NoPrev
  /\ nreq = 0
  /\ lastPut = NoPut
  /\ got = NoGet
  /\ born = <<>>
  /\ nputs = 0

IdleService ==
  /\ QuietService
  /\ storage = AllCredentials

\* fallbackData of scrapeWebsite, which it analyzes as a page that is not
\* an affiliate page
fallbackData ==
  [json |-> NoJson, markdown |-> NoContentExtracted, html |-> NoHtml]

InitExtract ==
  /\ IdleService
  /\ \E j \in 1..Len(Jsons), m \in 1..Len(Markdowns), h \in 1..Len(Htmls) :
       scrapedData =
         [json |-> Jsons[j], markdown |-> Markdowns[m], html |-> Htmls[h]]
  /\ affiliatePage \in BOOLEAN
  /\ analyzed = NoAnalysis
  /\ extractedData = getEmptyExtractedData
  /\ extractionMethod = ""
  /\ scored = NotScored
  /\ IdleContent
  /\ IdleMore

AnalyzeScrapedContent ==
  /\ analyzed = NoAnalysis
  /\ analyzed' = analyzeScrapedContent(scrapedData, affiliatePage)
  /\ UNCHANGED <<cacheVars, storage, clockVars, reqVars, histVars, unitVars,
                 scrapedData, affiliatePage, scoreVars, contentVars, moreVars>>

NextExtract == AnalyzeScrapedContent

SpecExtract == InitExtract /\ [][NextExtract]_vars

\* ------------------------------------------------------------------------
\* The scorer driven on its own: calculateQualityScore and
\* determineConfidence applied to extracted data, and again after one more
\* testimonial has been added to it
\* ------------------------------------------------------------------------
\* "Abc", too short to count as a product name
ShortName == <<65, 98, 99>>

AcmeWidget == <<65, 99, 109, 101, 32, 87, 105, 100, 103, 101, 116>>

ProductNames == <<<<>>, UnknownProduct, ShortName, AcmeWidget>>

ItemText == <<73, 116, 101, 109, 32>>

\* n distinct texts
Items(n) == [j \in 1..n |-> Numbered(ItemText, j)]

BenefitCounts == {0, 1, 5}

ExtractionMethods == {"llm", "parsing", "hybrid"}

InitScore ==
  /\ IdleService
  /\ scrapedData = NoScrapedData
  /\ analyzed = NoAnalysis
  /\ affiliatePage \in BOOLEAN
  /\ extractionMethod \in ExtractionMethods
  /\ \E p \in 1..Len(ProductNames), h \in 0..MaxItems, t \in 0..MaxItems,
        c \in 0..MaxItems, b \in BenefitCounts, pr \in 0..1, g \in 0..1,
        sp \in 0..1 :
       extractedData =
         [getEmptyExtractedData EXCEPT
            !.productName = ProductNames[p],
            !.headlines = Items(h),
            !.testimonials = Items(t),
            !.ctas = Items(c),
            !.benefits = Items(b),
            !.pricing = Items(pr),
            !.guarantees = Items(g),
            !.socialProof = Items(sp)]
  /\ scored = NotScored
  /\ IdleContent
  /\ IdleMore

ScoreOf(data, before, grown) ==
  LET quality == calculateQualityScore(data, affiliatePage)
  IN  [done |-> TRUE,
       qualityScore |-> quality,
       confidence |-> determineConfidence(quality, extractionMethod),
       grown |-> grown,
       before |-> before]

Score ==
  /\ ~scored.done
  /\ scored' = ScoreOf(extractedData, Num(0), FALSE)
  /\ UNCHANGED <<cacheVars, storage, clockVars, reqVars, histVars, unitVars,
                 extractVars, extractedData, extractionMethod, contentVars, moreVars>>

AddTestimonial ==
  /\ scored.done
  /\ Len(extractedData.testimonials) <= MaxItems
  /\ extractedData' =
       [extractedData EXCEPT
          !.testimonials = Append(@, Numbered(ItemText, Len(@) + 1))]
  /\ scored' = ScoreOf(extractedData', scored.qualityScore, TRUE)
  /\ UNCHANGED <<cacheVars, storage, clockVars, reqVars, histVars, unitVars,
                 extractVars, extractionMethod, contentVars, moreVars>>

NextScore ==
  \/ Score
  \/ AddTestimonial

SpecScore == InitScore /\ [][NextScore]_vars

\* ------------------------------------------------------------------------
\* ContentAnalyzer.analyzeContent driven on its own: one call, suspended
\* while a module is loaded and while a completion back-end answers
\* ------------------------------------------------------------------------
\* texts and numbers of the answers of the completion back-ends
AcmeTitle == <<65,99,109,101,32,87,105,100,103,101,116,32,80,114,111,32,45,32,79,102,102,105,99,105,97,108,32,83,105,116,101>>  \* "Acme Widget Pro - Official Site"
SleepBetter == <<83,108,101,101,112,32,98,101,116,116,101,114,32,101,118,101,114,121,32,110,105,103,104,116>>  \* "Sleep better every night"
WakeRested == <<87,97,107,101,32,117,112,32,114,101,115,116,101,100>>  \* "Wake up rested"
LightSleepers == <<108,105,103,104,116,32,115,108,101,101,112,101,114,115>>  \* "light sleepers"
PhysicalCategory == <<112,104,121,115,105,99,97,108>>  \* "physical"
PremiumPricePoint == <<112,114,101,109,105,117,109>>  \* "premium"
GadgetCategory == <<103,97,100,103,101,116>>  \* "gadget"
CertainLevel == <<99,101,114,116,97,105,110>>  \* "certain"
EightTenths == Double(214748364, 214748368)  \* 0.8
OneAndHalf == Double(402653184, 0)  \* 1.5

\* the page of a scrape, with the title of the page
PagePayload == Payload("object", SalesPage, Metadata(AcmeTitle))

\* a page without text whose title is the placeholder of the scraper
UntitledPayload == Payload("object", <<>>, Metadata(Untitled))

\* the record that FirecrawlService.scrapeWebsite returns as data: raw,
\* analyzed, and a metadata without title
ScrapeRecord == Payload("object", Undefined, Metadata(Undefined))

\* a page that states its guarantee three times
GuaranteePage ==
  <<51,48,32,100,97,121,32,109,111,110,101,121,32,98,97,99,107,32,103,117,97,114,97,110,116,101,101,10,51,48,32,100,97,121,32,109,111,110,101,121,32,98,97,99,107,32,103,117,97,114,97,110,116,101,101,10,51,48,32,100,97,121,32,109,111,110,101,121,32,98,97,99,107,32,103,117,97,114,97,110,116,101,101>>
  \* "30 day money back guarantee\n30 day money back guarantee\n30 day money back guarantee"

GuaranteePayload == Payload("object", GuaranteePage, Metadata(AcmeTitle))

Payloads ==
  { NullPayload,
    Payload("undefined", Undefined, NoMetadata),
    Payload("number", Undefined, NoMetadata),
    Payload("object", Undefined, NoMetadata),
    ScrapeRecord,
    UntitledPayload,
    PagePayload,
    GuaranteePayload }

\* localStorage: readable or not, and the completion credentials it holds
CompletionStorages ==
  { [AllCredentials EXCEPT !.openrouter_api_key = o,
                           !.perplexity_api_key = p] :
      o \in BOOLEAN, p \in BOOLEAN }
  \cup { [available |-> FALSE, firecrawl_api_key |-> FALSE,
          apify_api_token |-> FALSE, openrouter_api_key |-> FALSE,
          perplexity_api_key |-> FALSE] }

\* a record with every field, as the prompt asks for it
CompleteJson ==
  JsonObject(
    [dreamOutcome |->
       SectionObject("dreamOutcome",
         [mainBenefit |-> VString(SleepBetter),
          secondaryBenefits |-> VArray(<<WakeRested>>),
          targetAudience |-> VString(LightSleepers),
          emotionalOutcome |-> VString(WakeRested)]),
     perceivedLikelihood |->
       SectionObject("perceivedLikelihood",
         [testimonials |-> VArray(<<WakeRested>>),
          socialProofNumbers |-> VArray(<<>>),
          guarantees |-> VArray(<<>>)]),
     timeDelay |->
       SectionObject("timeDelay",
         [deliveryTimeframe |-> VString(Missing),
          resultsTimeframe |-> VString(Missing)]),
     effortSacrifice |->
       SectionObject("effortSacrifice",
         [difficultyLevel |-> VNumber(Three),
          prerequisites |-> VArray(<<>>),
          easeOfUse |-> VString(Missing)]),
     productInfo |->
       SectionObject("productInfo",
         [name |-> VString(AcmeWidget),
          category |-> VString(PhysicalCategory),
          industry |-> VString(HealthIndustry),
          pricePoint |-> VString(PremiumPricePoint)]),
     extractionQuality |->
       SectionObject("extractionQuality",
         [completenessScore |-> VNumber(EightTenths),
          confidenceLevel |-> VString(HighLevel),
          missingFields |-> VArray(<<>>)])])

\* a record with values outside the declared ones: a null section, an
\* empty text, a zero, and names that are not in the enumerations
OddJson ==
  JsonObject(
    [dreamOutcome |->
       SectionObject("dreamOutcome",
         [mainBenefit |-> VString(<<>>),
          secondaryBenefits |-> VNull,
          targetAudience |-> VNumber(Three)]),
     timeDelay |-> NullSection("timeDelay"),
     effortSacrifice |->
       SectionObject("effortSacrifice", [difficultyLevel |-> VNumber(Zero)]),
     productInfo |->
       SectionObject("productInfo",
         [category |-> VString(GadgetCategory),
          pricePoint |-> VNumber(Five)]),
     extractionQuality |->
       SectionObject("extractionQuality",
         [completenessScore |-> VNumber(OneAndHalf),
          confidenceLevel |-> VString(CertainLevel)])])

EmptyJson == JsonObject([s \in {} |-> AbsentSection(s)])

\* what a completion back-end does with a request: the request is
\* rejected, the response is not 2xx, has no choices or a content that is
\* not JSON, or the content is parsed
Fails(kind) == [ok |-> FALSE, kind |-> kind, value |-> JsonNull]

Parsed(value) == [ok |-> TRUE, kind |-> "parsed", value |-> value]

CompletionAnswers ==
  { Fails("rejected"), Fails("status 401"), Fails("no choices"),
    Fails("malformed") }
  \cup { Parsed(JsonNull), Parsed(JsonNumber), Parsed(EmptyJson),
         Parsed(OddJson), Parsed(CompleteJson) }

InitAnalyze ==
  /\ QuietService
  /\ storage \in CompletionStorages
  /\ IdleExtraction
  /\ IdleMore
  /\ pageData \in Payloads
  /\ step = "idle"
  /\ structuredData = JsonUndefined
  /\ productData = NoProductData
  /\ analysisOutcome = "pending"
  /\ completions = <<>>
  /\ replies = <<>>
  /\ strategy = ""

\* const { markdown = '', metadata = {} } = scrapedData
MarkdownOf(data) == IF data.markdown = Undefined THEN <<>> ELSE data.markdown

MetadataOf(data) ==
  IF data.metadata.present THEN data.metadata ELSE Metadata(Undefined)

\* getApiKey of a completion service: localStorage.getItem throws when the
\* storage cannot be read
HasKey(held) == storage.available /\ held

\* variant: validateAndCleanData is called after the try block
AnalyzeCatchOfValidateOutside(site) ==
  CASE site = "openrouter" -> "perplexity"
    [] site = "perplexity" -> "fallback"
    [] site = "validateAndCleanData" -> "escaped"

\* where an exception thrown at a site of analyzeContent is caught
AnalyzeCatchOf(site) ==
  CASE site = "openrouter" -> "perplexity"
    [] site = "perplexity" -> "fallback"
    [] site = "validateAndCleanData" -> "fallback"

\* return record, which the named strategy has produced
Returns(record, by) ==
  /\ productData' = record
  /\ strategy' = by
  /\ step' = "done"
  /\ analysisOutcome' = "returned"

Escapes ==
  /\ step' = "done"
  /\ analysisOutcome' = "thrown"
  /\ UNCHANGED <<productData, strategy>>

\* the catch block of analyzeContent
FallsBack ==
  Returns(fallbackAnalysis(MarkdownOf(pageData), MetadataOf(pageData)),
          "fallback")

\* the statements after the inner try blocks
Validates(data, by) ==
  IF ValidateThrows(data)
  THEN IF AnalyzeCatchOf("validateAndCleanData") = "fallback"
       THEN FallsBack ELSE Escapes
  ELSE Returns(validateAndCleanData(data), by)

othersOfAnalysis ==
  <<cacheVars, storage, clockVars, reqVars, histVars, unitVars, extractVars,
    scoreVars, moreVars, pageData>>

\* analyzeContent(scrapedData), up to the import of OpenRouterService
AnalyzeContent ==
  /\ step = "idle"
  /\ IF pageData.type # "object"
     THEN Returns(fallbackAnalysis(<<>>, Metadata(UnknownTitle)), "fallback")
     ELSE /\ step' = "openrouter"
          /\ UNCHANGED <<productData, analysisOutcome, strategy>>
  /\ UNCHANGED <<othersOfAnalysis, structuredData, completions, replies>>

\* OpenRouterService is loaded: without a key the catch block goes on to
\* import PerplexityService, with a key the request is sent
AskOpenRouter ==
  /\ step = "openrouter"
  /\ IF HasKey(storage.openrouter_api_key)
     THEN /\ step' = "openrouter_fetch"
          /\ completions' = Append(completions, "openrouter")
     ELSE /\ step' = AnalyzeCatchOf("openrouter")
          /\ UNCHANGED completions
  /\ UNCHANGED <<othersOfAnalysis, structuredData, productData,
                 analysisOutcome, replies, strategy>>

OpenRouterAnswers ==
  /\ step = "openrouter_fetch"
  /\ \E answer \in CompletionAnswers :
       /\ replies' = Append(replies, answer)
       /\ IF answer.ok
          THEN /\ structuredData' = answer.value
               /\ Validates(answer.value, "openrouter")
          ELSE /\ step' = AnalyzeCatchOf("openrouter")
               /\ UNCHANGED <<structuredData, productData, analysisOutcome,
                              strategy>>
  /\ UNCHANGED <<othersOfAnalysis, completions>>

\* PerplexityService is loaded: without a key the catch blocks lead to the
\* fallback analysis, with a key the request is sent
AskPerplexity ==
  /\ step = "perplexity"
  /\ IF HasKey(storage.perplexity_api_key)
     THEN /\ step' = "perplexity_fetch"
          /\ completions' = Append(completions, "perplexity")
          /\ UNCHANGED <<productData, analysisOutcome, strategy>>
     ELSE /\ FallsBack
          /\ UNCHANGED completions
  /\ UNCHANGED <<othersOfAnalysis, structuredData, replies>>

PerplexityAnswers ==
  /\ step = "perplexity_fetch"
  /\ \E answer \in CompletionAnswers :
       /\ replies' = Append(replies, answer)
       /\ IF answer.ok
          THEN /\ structuredData' = answer.value
               /\ Validates(answer.value, "perplexity")
          ELSE /\ FallsBack
               /\ UNCHANGED structuredData
  /\ UNCHANGED <<othersOfAnalysis, completions>>

NextAnalyze ==
  \/ AnalyzeContent
  \/ AskOpenRouter
  \/ OpenRouterAnswers
  \/ AskPerplexity
  \/ PerplexityAnswers

SpecAnalyze == InitAnalyze /\ [][NextAnalyze]_vars

\* ------------------------------------------------------------------------
\* Scheduling.  The steps the program takes on its own are taken when they
\* can be; a request to Firecrawl carries the timeout of the configuration
\* and is answered or fails; the requests of ApifyService are plain fetch
\* calls without a timeout or an abort signal, so nothing makes them end.
\* ------------------------------------------------------------------------
ProgramStep ==
  \/ FcStart
  \/ FcRetryCatch
  \/ FcBackoff
  \/ FcAfterLoop
  \/ FcCatch
  \/ ApStart
  \/ ApTimeout
  \/ ApCatch
  \/ OrchAfter
  \/ OrchCatch
  \/ Escape
  \/ Settle

FirecrawlAnswers == \E resp \in FcResponses : FcAttempt(resp)

SpecFair ==
  /\ Init
  /\ [][Next]_vars
  /\ WF_vars(ProgramStep)
  /\ WF_vars(FirecrawlAnswers)

\* ------------------------------------------------------------------------
\* The classifier driven on its own: analyzeURL applied to a URL
\* ------------------------------------------------------------------------
PlainHost == <<97,46,105,111>>  \* "a.io"
ShoutedHost == <<77,89,46,87,73,88,46,67,79,77>>  \* "MY.WIX.COM"
Subdomain == <<115,104,111,112,46>>  \* "shop."

\* the paths and queries of the URLs: none, and with and without a marker
UrlTails ==
  {
    <<>>,  \* ""
    <<47>>,  \* "/"
    <<47,97,102,102,105,108,105,97,116,101,47,55>>,  \* "/affiliate/7"
    <<47,65,102,102,105,108,105,97,116,101>>,  \* "/Affiliate"
    <<47,63,104,111,112,61,49>>,  \* "/?hop=1"
    <<47,63,97,61,49,38,104,111,112,61,49>>,  \* "/?a=1&hop=1"
    <<47,63,99,98,112,97,103,101,61,50>>,  \* "/?cbpage=2"
    <<47,63,118,101,110,100,111,114,61,120>>,  \* "/?vendor=x"
    <<47,63,114,101,102,61,49>>,  \* "/?ref=1"
    <<47,119,105,120,46,99,111,109>>  \* "/wix.com"
  }

\* a plain host, a subdomain of every listed platform and network, and a
\* host written in upper case
UrlHosts ==
  {PlainHost, ShoutedHost}
  \cup {Subdomain \o complexPlatforms[k] : k \in 1..Len(complexPlatforms)}
  \cup {Subdomain \o affiliateNetworks[k] : k \in 1..Len(affiliateNetworks)}

\* with a scheme, and without one (for which new URL throws)
UrlSchemes == {SchemeHttp, SchemeHttps, <<>>}

ClassifiedUrls ==
  {scheme \o host \o tail :
     scheme \in UrlSchemes, host \in UrlHosts, tail \in UrlTails}

InitClassify ==
  /\ QuietService
  /\ storage \in Storages
  /\ IdleExtraction
  /\ IdleContent
  /\ analysis = NoURLAnalysis
  /\ IdleBatch
  /\ IdlePure
  /\ IdleConcurrent

\* IntelligentScraper.analyzeURL(u)
AnalyzeURL(u) ==
  /\ ~analysis.done
  /\ analysis' = analyzeURL(u)
  /\ UNCHANGED <<cacheVars, storage, clockVars, reqVars, histVars, unitVars,
                 extractVars, scoreVars, contentVars, batchVars,
                 pureVars, concVars>>

NextClassify == \E u \in ClassifiedUrls : AnalyzeURL(u)

SpecClassify == InitClassify /\ [][NextClassify]_vars

\* ------------------------------------------------------------------------
\* FirecrawlService.scrapeMultipleUrls: the loop over the urls, each scraped
\* by FirecrawlService.scrapeWebsite.  While scrapeWebsite runs, the
\* positions "orch_after" and "orch_catch" are those of its caller: it has
\* returned adapterResult, or thrown exc.  The averageQuality of the
\* summary is computed from the analyzed pages, which are opaque here, and
\* is left out of the summary.
\* ------------------------------------------------------------------------
MaxBatch == 2

BatchUrls == {UrlPlain, UrlPlainVariant, UrlMalformed}

BatchInputs ==
  UNION {[1..n -> BatchUrls] : n \in 0..MaxBatch}

\* the delay between two scrapes, in milliseconds
BatchDelayMs == 1000

InitBatch ==
  /\ QuietService
  /\ storage \in Storages
  /\ IdleAnalysis

Event(kind, n, at) == [kind |-> kind, n |-> n, at |-> at]

CountOf(rs, success) ==
  Cardinality({k \in 1..Len(rs) : rs[k].success = success})

othersOfBatch ==
  <<cacheVars, storage, clockVars, histVars, unitVars, extractVars,
    scoreVars, contentVars, classVars, pureVars, concVars>>

\* scrapeMultipleUrls(us), up to the loop
ScrapeMultipleUrls(us) ==
  /\ pc = "idle"
  /\ position = 0
  /\ urls' = us
  /\ position' = 1
  /\ pc' = "batch_loop"
  /\ UNCHANGED <<othersOfBatch, callVars, stage, retryVars, i, status,
                 adapterResult, result, outcome, exc, log, results, events,
                 batchReturn>>

\* the head of the loop: call scrapeWebsite for the next url, or compute
\* the summary and return
BatchLoop ==
  /\ pc = "batch_loop"
  /\ IF position <= Len(urls)
     THEN /\ url' = urls[position]
          /\ log' = <<>>
          /\ events' = Append(events, Event("start", position, now))
          /\ pc' = AdapterEntry("firecrawl")
          /\ UNCHANGED batchReturn
     ELSE /\ batchReturn' =
               [done |-> TRUE, results |-> results,
                summary |-> [total |-> Len(urls),
                             successful |-> CountOf(results, TRUE),
                             failed |-> CountOf(results, FALSE)]]
          /\ pc' = "batch_done"
          /\ UNCHANGED <<url, log, events>>
  /\ UNCHANGED <<othersOfBatch, preferredService, service, startedAt, stage,
                 retryVars, i, status, adapterResult, result, outcome, exc,
                 urls, position, results>>

\* scrapeWebsite has returned: push its result
BatchPush ==
  /\ pc = "orch_after"
  /\ results' = Append(results, adapterResult)
  /\ events' = Append(events, Event("end", position, now))
  /\ pc' = "batch_delay"
  /\ UNCHANGED <<othersOfBatch, callVars, stage, retryVars, i, status,
                 adapterResult, result, outcome, exc, log, urls, position,
                 batchReturn>>

\* the timer of the delay has fired
BatchDelay ==
  /\ pc = "batch_delay"
  /\ now' = now + BatchDelayMs
  /\ events' = Append(events, Event("delay", position, now'))
  /\ position' = position + 1
  /\ pc' = "batch_loop"
  /\ UNCHANGED <<cacheVars, storage, ticks, histVars, unitVars, extractVars,
                 scoreVars, contentVars, classVars, pureVars, concVars, callVars, stage,
                 retryVars, i, status, adapterResult, result, outcome, exc,
                 log, urls, results, batchReturn>>

\* scrapeWebsite has thrown: the catch clause pushes a failure and the loop
\* goes on
BatchCatch ==
  /\ pc = "orch_catch"
  /\ results' = Append(results, Failure("Failed to scrape: " \o exc))
  /\ events' = Append(events, Event("end", position, now))
  /\ exc' = ""
  /\ position' = position + 1
  /\ pc' = "batch_loop"
  /\ UNCHANGED <<othersOfBatch, callVars, stage, retryVars, i, status,
                 adapterResult, result, outcome, log, urls, batchReturn>>

NextBatch ==
  \/ Tick
  \/ \E us \in BatchInputs : ScrapeMultipleUrls(us)
  \/ BatchLoop
  \/ FcStart
  \/ \E resp \in FcResponses : FcAttempt(resp)
  \/ FcRetryCatch
  \/ FcBackoff
  \/ FcAfterLoop
  \/ FcCatch
  \/ BatchPush
  \/ BatchDelay
  \/ BatchCatch

SpecBatch == InitBatch /\ [][NextBatch]_vars

\* ------------------------------------------------------------------------
\* FirecrawlService.mergeExtractedData applied on its own to a primary
\* record and a partial secondary record.  Each of the eight arrays of a
\* record holds the same entries, so that every cap meets every input.
\* ------------------------------------------------------------------------
MaxMergeLen == 2

ArrayFields ==
  {"headlines", "testimonials", "pricing", "benefits", "ctas", "guarantees",
   "timeframes", "socialProof"}

\* "Item 01" and "Item 02" in every order and number, repeats included
ShortArrays ==
  UNION {[1..n -> {Numbered(ItemText, 1), Numbered(ItemText, 2)}] :
           n \in 0..MaxMergeLen}

\* n distinct texts from "Item <from>" on
ItemsFrom(from, n) == [j \in 1..n |-> Numbered(ItemText, from + j - 1)]

\* arrays at the smallest cap, above the largest cap, and one that shares
\* entries with the latter
MergeArrays ==
  ShortArrays \cup {ItemsFrom(1, 5), ItemsFrom(1, 16), ItemsFrom(11, 12)}

RecordOf(name, array) ==
  [f \in DOMAIN getEmptyExtractedData |->
     IF f = "productName" THEN name
     ELSE IF f \in ArrayFields THEN array
     ELSE getEmptyExtractedData[f]]

\* a partial record with the arrays alone
ArraysOf(array) == [f \in ArrayFields |-> array]

\* no property at all
NoProperties == [f \in {} |-> <<>>]

MergePrimaries ==
  {RecordOf(name, a) : name \in {UnknownProduct, AcmeWidget},
                       a \in MergeArrays}

MergeSecondaries ==
  {NoProperties}
    \cup {ArraysOf(a) : a \in MergeArrays}
    \cup {RecordOf(ShortName, a) : a \in MergeArrays}

InitMerge ==
  /\ IdleService
  /\ IdleExtraction
  /\ IdleContent
  /\ analysis = NoURLAnalysis
  /\ IdleBatch
  /\ IdleConcurrent
  /\ mergePrimary \in MergePrimaries
  /\ mergeSecondary \in MergeSecondaries
  /\ merged = NotMerged
  /\ measured = NotMeasured

MergeExtractedData ==
  /\ ~merged.done
  /\ merged' = [done |-> TRUE,
                data |-> mergeExtractedData(mergePrimary, mergeSecondary)]
  /\ UNCHANGED <<cacheVars, storage, clockVars, reqVars, histVars, unitVars,
                 extractVars, scoreVars, contentVars, classVars, batchVars,
                 concVars, mergePrimary, mergeSecondary, measured>>

NextMerge == MergeExtractedData

SpecMerge == InitMerge /\ [][NextMerge]_vars

\* ------------------------------------------------------------------------
\* FirecrawlService.calculateCompletenessScore and identifyMissingFields
\* applied on their own to extracted data: every choice of product name
\* and, for each of the eight arrays, of empty or not
\* ------------------------------------------------------------------------
\* how many entries an array that is not empty holds
MaxPresent == 1

PresenceOf(name, present) ==
  [f \in DOMAIN getEmptyExtractedData |->
     IF f = "productName" THEN name
     ELSE IF f \in present THEN Items(MaxPresent)
     ELSE getEmptyExtractedData[f]]

InitMeasure ==
  /\ IdleService
  /\ scrapedData = NoScrapedData
  /\ analyzed = NoAnalysis
  /\ affiliatePage \in BOOLEAN
  /\ extractionMethod = ""
  /\ \E p \in 1..Len(ProductNames), present \in SUBSET ArrayFields :
       extractedData = PresenceOf(ProductNames[p], present)
  /\ scored = NotScored
  /\ IdleContent
  /\ analysis = NoURLAnalysis
  /\ IdleBatch
  /\ IdleConcurrent
  /\ mergePrimary = getEmptyExtractedData
  /\ mergeSecondary = <<>>
  /\ merged = NotMerged
  /\ measured = NotMeasured

othersOfMeasure ==
  <<cacheVars, storage, clockVars, reqVars, histVars, unitVars, extractVars,
    scoreVars, contentVars, classVars, batchVars, concVars,
    mergePrimary, mergeSecondary, merged>>

CalculateCompletenessScore ==
  /\ ~measured.scored
  /\ measured' =
       [measured EXCEPT
          !.scored = TRUE,
          !.completenessScore = calculateCompletenessScore(extractedData)]
  /\ UNCHANGED othersOfMeasure

IdentifyMissingFields ==
  /\ ~measured.listed
  /\ measured' =
       [measured EXCEPT
          !.listed = TRUE,
          !.missingFields =
             identifyMissingFields(extractedData, affiliatePage)]
  /\ UNCHANGED othersOfMeasure

NextMeasure ==
  \/ CalculateCompletenessScore
  \/ IdentifyMissingFields

SpecMeasure == InitMeasure /\ [][NextMeasure]_vars

\* ------------------------------------------------------------------------
\* Concurrent calls of FirecrawlService.scrapeWebsite and clearCache.  The
\* calls run on one event loop: the code between two awaits of a call is
\* one step, and the steps of the calls interleave in any order.  A call is
\* suspended while validateUrl probes the URL and while a request to
\* Firecrawl is in flight; the wait of the backoff is part of the step that
\* sends the next request.  The storage holds the credentials.
\* ------------------------------------------------------------------------
MaxCalls == 2

MaxClears == 1

CallIds == 1..MaxCalls

CallUrls == {UrlPlain, UrlPlainVariant, UrlWix}

IdleCall ==
  [pc |-> "idle", url |-> <<>>, missed |-> FALSE, attempt |-> 0,
   requests |-> 0, result |-> NoResult]

WriteOf(c, key, r, evicted) ==
  [kind |-> "write", call |-> c, key |-> key, result |-> r,
   evicted |-> evicted]

ClearEvent ==
  [kind |-> "clear", call |-> 0, key |-> <<>>, result |-> NoResult,
   evicted |-> {}]

ConcurrentPrefills == {0, MaxCacheSize - 1}

InitConcurrent ==
  /\ \E n \in ConcurrentPrefills :
       /\ cache = [j \in 1..n |-> [key |-> FillerKey(j), value |-> FillerResult]]
       /\ cacheTimestamps = [j \in 1..n |-> [key |-> FillerKey(j), value |-> 1]]
  /\ storage = AllCredentials
  /\ now = 1
  /\ ticks = 0
  /\ IdleRequest
  /\ prev = NoPrev
  /\ nreq = 0
  /\ lastPut = NoPut
  /\ got = NoGet
  /\ born = <<>>
  /\ nputs = 0
  /\ IdleExtraction
  /\ IdleContent
  /\ analysis = NoURLAnalysis
  /\ IdleBatch
  /\ IdlePure
  /\ calls = [c \in CallIds |-> IdleCall]
  /\ cacheLog = <<>>

othersOfConcurrent ==
  <<storage, clockVars, reqVars, histVars, unitVars, extractVars, scoreVars,
    contentVars, classVars, batchVars, pureVars>>

\* scrapeWebsite(u) up to its first await: the lookup in the cache
CallStart(c, u) ==
  /\ calls[c].pc = "idle"
  /\ LET cached == getCachedResult(cache, cacheTimestamps, u, now)
     IN  calls' =
           [calls EXCEPT
              ![c] = IF cached # <<>>
                     THEN [@ EXCEPT !.pc = "done", !.url = u,
                                    !.result = cached[1]]
                     ELSE [@ EXCEPT !.pc = "validating", !.url = u,
                                    !.missed = TRUE]]
  /\ UNCHANGED <<cacheVars, othersOfConcurrent, cacheLog>>

\* validateUrl has returned: the call returns a failure or sends its first
\* request
CallValidated(c) ==
  /\ calls[c].pc = "validating"
  /\ calls' =
       [calls EXCEPT
          ![c] = IF ~IsWellFormed(@.url)
                 THEN [@ EXCEPT !.pc = "done", !.result = Failure("Invalid URL")]
                 ELSE IF ~storage.available
                 THEN [@ EXCEPT !.pc = "thrown"]
                 ELSE IF ~storage.firecrawl_api_key
                 THEN [@ EXCEPT !.pc = "done",
                                !.result = Failure("Firecrawl API key not found. Please add your API key in settings.")]
                 ELSE [@ EXCEPT !.pc = "request", !.attempt = 1,
                                !.requests = 1]]
  /\ UNCHANGED <<cacheVars, othersOfConcurrent, cacheLog>>

\* the request in flight is answered: the call retries, or leaves the loop,
\* writes the cache and returns
CallAnswered(c, resp) ==
  /\ calls[c].pc = "request"
  /\ IF resp.kind = "thrown" /\ calls[c].attempt < maxRetries
     THEN /\ calls' = [calls EXCEPT ![c].attempt = @ + 1,
                                    ![c].requests = @ + 1]
          /\ UNCHANGED <<cacheVars, cacheLog>>
     ELSE LET f == FcFinish(calls[c].url,
                            IF resp.kind = "thrown" THEN resp.error ELSE "",
                            resp, cache, cacheTimestamps, now)
              r == IF f.thrown # "" THEN Failure(f.thrown) ELSE f.ret
              written == /\ f.thrown = ""
                         /\ f.ret.success
                         /\ ~(resp.markdown = "" /\ resp.html = "")
          IN  /\ cache' = f.cache
              /\ cacheTimestamps' = f.cacheTimestamps
              /\ calls' = [calls EXCEPT ![c].pc = "done", ![c].result = r]
              /\ cacheLog' =
                   IF written
                   THEN Append(cacheLog,
                               WriteOf(c, getCacheKey(calls[c].url), r,
                                       MapKeys(cache) \ MapKeys(f.cache)))
                   ELSE cacheLog
  /\ UNCHANGED othersOfConcurrent

\* FirecrawlService.clearCache, called while the calls are under way
ClearCacheMeanwhile ==
  /\ Len(SelectSeq(cacheLog, LAMBDA e : e.kind = "clear")) < MaxClears
  /\ cache' = <<>>
  /\ cacheTimestamps' = <<>>
  /\ cacheLog' = Append(cacheLog, ClearEvent)
  /\ UNCHANGED <<othersOfConcurrent, calls>>

NextConcurrent ==
  \/ Tick
  \/ \E c \in CallIds, u \in CallUrls : CallStart(c, u)
  \/ \E c \in CallIds : CallValidated(c)
  \/ \E c \in CallIds, resp \in FcResponses : CallAnswered(c, resp)
  \/ ClearCacheMeanwhile

SpecConcurrent == InitConcurrent /\ [][NextConcurrent]_vars

\* ------------------------------------------------------------------------
\* From the classifier of IntelligentScraper to the classifier of
\* FirecrawlService: scrapeURL with the service left to analyzeURL, for the
\* classified URLs, followed by scrapeWebsite up to its return when the URL
\* is routed to Firecrawl and Firecrawl answers with a page.
\* ------------------------------------------------------------------------
InitRoute ==
  /\ QuietService
  /\ storage = AllCredentials
  /\ IdleExtraction
  /\ IdleContent
  /\ analysis = NoURLAnalysis
  /\ IdleBatch
  /\ IdlePure
  /\ IdleConcurrent

NextRoute ==
  \/ \E u \in ClassifiedUrls : ScrapeURL(u, "auto")
  \/ FcStart
  \/ \E resp \in FcPages : FcAttempt(resp)
  \/ FcAfterLoop

SpecRoute == InitRoute /\ [][NextRoute]_vars

\* ------------------------------------------------------------------------
\* Observations on a completed scrapeURL call
\* ------------------------------------------------------------------------
Done == pc = "done"

AnswersOf(b) ==
  LET OfBackend(e) == e.backend = b
      entries == SelectSeq(log, OfBackend)
  IN  [j \in 1..Len(entries) |-> entries[j].answer]

Attempts(b) == Len(AnswersOf(b))

Failed(answer) == answer \in {"thrown", "refused"}

\* the primary failed k >= 0 times and then answered with a page
FailedThenSucceeded(answers) ==
  /\ answers # <<>>
  /\ answers[Len(answers)] = "page"
  /\ \A j \in 1..(Len(answers) - 1) : Failed(answers[j])
  /\ Len(answers) - 1 < maxRetries

\* the primary was attempted and every attempt failed
AlwaysFailed(answers) ==
  /\ answers # <<>>
  /\ \A j \in 1..Len(answers) : Failed(answers[j])

CredentialsConfigured ==
  storage.available /\ storage.firecrawl_api_key /\ storage.apify_api_token

CredentialMissing(s) ==
  /\ storage.available
  /\ IF s = "firecrawl" THEN ~storage.firecrawl_api_key
     ELSE ~storage.apify_api_token

\* ------------------------------------------------------------------------
\* Claims
\* ------------------------------------------------------------------------

\* C1: when the primary back-end fails k < 3 times and then succeeds,
\* scrapeURL returns success with the primary's name as method, after k + 1
\* attempts against the primary and none against the other back-end.
C1_SuccessAfterRetries ==
  (Done /\ FailedThenSucceeded(AnswersOf(service)))
    => /\ outcome = "returned"
       /\ result.success
       /\ result.method = service
       /\ Attempts(OtherService(service)) = 0

\* C2: when every attempt against the primary back-end fails, scrapeURL
\* makes exactly maxRetries attempts against it and then exactly one
\* against the other back-end, whether the failures are thrown or returned.
C2_RetriesThenOneFallback ==
  (Done /\ CredentialsConfigured /\ AlwaysFailed(AnswersOf(service)))
    => /\ Attempts(service) = maxRetries
       /\ Attempts(OtherService(service)) = 1

\* C3: when the primary and the fallback back-end both fail, scrapeURL
\* returns success = false with the error of the fallback back-end.
C3_LastErrorReported ==
  (Done /\ CredentialsConfigured /\ stage = "fallback"
     /\ ~adapterResult.success)
    => /\ outcome = "returned"
       /\ ~result.success
       /\ result.error = adapterResult.error

\* C4: when no credential is configured for the primary back-end, the
\* failure is surfaced at once: no attempt is made against either back-end.
C4_CredentialMissingSurfaced ==
  (Done /\ IsWellFormed(url) /\ CredentialMissing(service))
    => /\ outcome = "returned"
       /\ ~result.success
       /\ Attempts(service) = 0
       /\ Attempts(OtherService(service)) = 0

\* C5: for a malformed URL scrapeURL returns an outcome with success = false;
\* it does not throw and calls no back-end.
C5_InvalidURLReturned ==
  (Done /\ ~IsWellFormed(url))
    => /\ outcome = "returned"
       /\ ~result.success
       /\ log = <<>>

\* C6: for a well-formed URL scrapeURL returns an outcome and never throws,
\* whatever the back-ends answer.
C6_NeverThrows ==
  (Done /\ IsWellFormed(url)) => outcome = "returned"

\* both back-ends threw during one call, and the call returned
C6_Witness ==
  /\ Done
  /\ IsWellFormed(url)
  /\ "thrown" \in {AnswersOf("firecrawl")[j] : j \in 1..Attempts("firecrawl")}
  /\ "thrown" \in {AnswersOf("apify")[j] : j \in 1..Attempts("apify")}
  /\ outcome = "returned"

\* C7: once scrapeURL has succeeded with content for a URL, a second call
\* for the same URL within the TTL calls no back-end.
C7_SecondCallServedFromCache ==
  (Done /\ prev.ok /\ prev.url = url /\ now - prev.startedAt < CACHE_TTL)
    => /\ log = <<>>
       /\ outcome = "returned"
       /\ result.success

\* C8: every stored entry is a successful result with content; the
\* placeholder result and failures are never stored.
C8_OnlyContentCached ==
  \A j \in 1..Len(cache) :
    /\ cache[j].value.success
    /\ HasContent(cache[j].value.data)

\* a call returned the placeholder result while the cache holds an entry
C8_Witness ==
  /\ Done
  /\ result.success
  /\ result.data.markdown = PlaceholderMarkdown
  /\ cache # <<>>

\* C9: after put(url, r) of a successful result, get(url') for a url' equal
\* to url once lowercased and trimmed returns r while now - insertedAt is
\* below the TTL and returns absent once it exceeds the TTL.
C9_RoundTrip ==
  (got.valid /\ lastPut.valid
     /\ trim(toLowerCase(got.url)) = trim(toLowerCase(lastPut.url)))
    => /\ (got.at - lastPut.at < CACHE_TTL => got.value = <<lastPut.result>>)
       /\ (got.at - lastPut.at > CACHE_TTL => got.value = <<>>)

\* a lookup under another spelling of the url found the stored result
C9_Witness ==
  /\ got.valid
  /\ lastPut.valid
  /\ got.url # lastPut.url
  /\ got.value = <<lastPut.result>>

\* the stored key that was inserted first
OldestInserted(c) ==
  CHOOSE k \in MapKeys(c) :
    \A other \in MapKeys(c) : MapGet(born, k) <= MapGet(born, other)

LastAnswer == log[Len(log)]

\* no request of the call ended in an exception
NothingThrown == \A j \in 1..Len(log) : log[j].answer # "thrown"

\* C11: when a back-end reports success without extractable content (no
\* markdown and no html, or an empty dataset), scrapeURL returns success
\* with the placeholder page whose markdown is "No content extracted",
\* for the fast and for the deep back-end alike.
C11_PlaceholderForEmptyContent ==
  (Done /\ log # <<>> /\ NothingThrown
     /\ LastAnswer.answer = "page" /\ ~LastAnswer.content)
    => /\ outcome = "returned"
       /\ result.success
       /\ result.data.markdown = PlaceholderMarkdown

\* ------------------------------------------------------------------------
\* Properties of the extractor (FirecrawlService.analyzeScrapedContent)
\* ------------------------------------------------------------------------
\* the extractor has returned
Analyzed == analyzed # NoAnalysis

\* the evidence arrays of an extracted record
EvidenceArrays ==
  {"headlines", "testimonials", "pricing", "benefits", "ctas", "guarantees",
   "timeframes", "socialProof"}

\* C12: for the placeholder page that scrapeWebsite builds when the scrape
\* has no content, the extractor returns productName "Unknown Product",
\* every evidence array empty, and confidence "low".
C12_PlaceholderExtractsNothing ==
  (Analyzed /\ scrapedData = fallbackData /\ ~affiliatePage)
    => /\ analyzed.extractedData.productName = UnknownProduct
       /\ \A f \in EvidenceArrays : analyzed.extractedData[f] = <<>>
       /\ analyzed.confidence = "low"

\* the categories of the schema
SchemaCategories ==
  {<<115,111,102,116,119,97,114,101>>,  \* software
   <<112,104,121,115,105,99,97,108>>,  \* physical
   <<115,101,114,118,105,99,101>>,  \* service
   <<105,110,102,111>>,  \* info
   <<104,101,97,108,116,104>>}  \* health

InfoCategory == <<105,110,102,111>>  \* "info"

\* the fields of an extracted record that hold a string
StringFields == ExtractedFields \ EvidenceArrays

\* C13: for any page, and whichever strategy produced it, the returned
\* record has every field of the schema defined and its category is one of
\* software, physical, service, info, health.
C13_SchemaCompleteAndEnums ==
  Analyzed
    => /\ \A f \in StringFields : analyzed.extractedData[f] # Undefined
       /\ analyzed.extractedData.category \in SchemaCategories

C15_QualityScoreInUnitInterval ==
  scored.done
    => /\ ~scored.qualityScore.nan
       /\ scored.qualityScore.n >= 0
       /\ scored.qualityScore.n <= Scale

\* C16: adding one more testimonial to a record, every other field kept,
\* never decreases the quality score.
C16_MonotoneInTestimonials ==
  scored.grown =>
    ~(/\ ~scored.qualityScore.nan
      /\ ~scored.before.nan
      /\ scored.qualityScore.n < scored.before.n)

\* a testimonial was added to a record that had one, and the score rose
C16_Witness ==
  /\ scored.grown
  /\ Len(extractedData.testimonials) = 2
  /\ ~scored.qualityScore.nan
  /\ ~scored.before.nan
  /\ scored.qualityScore.n > scored.before.n

\* the quality score is a number above h hundredths
Above(q, h) == ~q.nan /\ 100 * q.n > h * Scale

\* C17: confidence is "high" exactly when the method is llm and the score
\* is above 0.8, or the score is above 0.7; "medium" exactly when it is not
\* high and the score is above 0.5; and "low" otherwise.
C17_ConfidenceLevels ==
  scored.done =>
    LET q == scored.qualityScore
        high == (extractionMethod = "llm" /\ Above(q, 80)) \/ Above(q, 70)
        medium == ~high /\ Above(q, 50)
    IN  /\ scored.confidence \in {"high", "medium", "low"}
        /\ scored.confidence = "high" <=> high
        /\ scored.confidence = "medium" <=> medium
        /\ scored.confidence = "low" <=> (~high /\ ~medium)

\* a score of exactly 0.7 is rated medium
C17_Witness ==
  /\ scored.done
  /\ ~scored.qualityScore.nan
  /\ 10 * scored.qualityScore.n = 7 * Scale
  /\ scored.confidence = "medium"

\* the result of the primary strategy on the page
PrimaryExtraction == PrimaryOf(scrapedData).data

\* C18: when the result of the primary strategy is incomplete (no
\* headlines, no benefits, no calls to action, or the placeholder product
\* name) and the page has html, the arrays found in the html are merged into
\* the result and the method becomes "hybrid", whichever strategy was
\* primary.
C18_IncompleteMergedAsHybrid ==
  (Analyzed /\ scrapedData.html.present /\ isDataIncomplete(PrimaryExtraction))
    => /\ analyzed.extractionMethod = "hybrid"
       /\ analyzed.extractedData =
            mergeExtractedData(PrimaryExtraction,
                               parseHtmlContent(scrapedData.html))

Defined(v) == v.type \notin {"undefined", "null"}

\* every field of the record is defined and the enumerated fields hold one
\* of their declared values
SchemaComplete(record) ==
  /\ \A s \in SectionNames : \A f \in Sections[s] : Defined(record[s][f])
  /\ IncludesValue(validCategories, record.productInfo.category)
  /\ IncludesValue(validPricePoints, record.productInfo.pricePoint)
  /\ IncludesValue(validLevels, record.extractionQuality.confidenceLevel)

\* C20: ContentAnalyzer.analyzeContent never propagates an error: for a
\* payload that is null, not an object, empty, the record of the scraper
\* without markdown and title, or a page, and whatever the completion
\* back-ends do (no credential, unreadable storage, rejected request,
\* non-2xx response, no choices, malformed JSON, null or other JSON), the
\* call returns a record whose fields are all defined and whose category,
\* pricePoint and confidenceLevel are among their declared values.
C20_AnalyzeContentAlwaysReturns ==
  /\ analysisOutcome # "thrown"
  /\ step = "done" =>
       /\ analysisOutcome = "returned"
       /\ SchemaComplete(productData)

\* a back-end answered the JSON text null for the record of the scraper
\* and the call returned the record of the fallback analysis
C20_Witness ==
  /\ step = "done"
  /\ analysisOutcome = "returned"
  /\ pageData = ScrapeRecord
  /\ completions = <<"openrouter", "perplexity">>
  /\ structuredData = JsonNull
  /\ productData = fallbackAnalysis(<<>>, Metadata(Undefined))

\* a completion back-end has a credential that can be read
Configured(name) ==
  HasKey(IF name = "openrouter" THEN storage.openrouter_api_key
         ELSE storage.perplexity_api_key)

\* the back-end was not configured, or its request failed
Unavailable(name) ==
  \/ /\ ~Configured(name)
     /\ \A k \in 1..Len(completions) : completions[k] # name
  \/ \E k \in 1..Len(replies) : completions[k] = name /\ ~replies[k].ok

\* C21: for a page, the completion back-ends are attempted strictly in
\* order and one at a time: Perplexity is called only after OpenRouter was
\* unconfigured or failed, the heuristic strategy runs only after both
\* failed, the first back-end to return a well-formed JSON payload
\* determines the result, and without any completion credential no
\* completion request is sent.
C21_BackendsInOrder ==
  pageData.type = "object" =>
    /\ completions \in {<<>>, <<"openrouter">>, <<"perplexity">>,
                        <<"openrouter", "perplexity">>}
    /\ Len(replies) <= Len(completions)
    /\ Len(completions) <= Len(replies) + 1
    /\ (\E k \in 1..Len(completions) : completions[k] = "perplexity")
         => Unavailable("openrouter")
    /\ strategy = "fallback"
         => Unavailable("openrouter") /\ Unavailable("perplexity")
    /\ \A k \in 1..Len(replies) :
         replies[k].ok =>
           /\ step = "done"
           /\ strategy = completions[k]
           /\ productData = validateAndCleanData(replies[k].value)
    /\ (~Configured("openrouter") /\ ~Configured("perplexity"))
         => completions = <<>>

\* the statuses of a run after which pollForCompletion stops polling
TerminalStatuses == {"SUCCEEDED", "FAILED"}

\* C22: pollForCompletion polls the status at most maxAttempts times: on
\* SUCCEEDED it goes on to fetch the dataset and the adapter returns the
\* first record of it, on FAILED the adapter fails with 'Apify scraping
\* failed', once the attempts are used up it fails with 'Apify scraping
\* timeout', and it polls again only after a status that is not terminal.
C22_BoundedPolling ==
  [][/\ pc = "ap_poll" =>
          /\ i <= maxAttempts
          /\ i >= maxAttempts =>
               pc' = "ap_catch" /\ exc' = "Apify scraping timeout"
          /\ status' = "SUCCEEDED" => pc' = "ap_dataset"
          /\ status' = "FAILED" =>
               pc' = "ap_catch" /\ exc' = "Apify scraping failed"
          /\ pc' = "ap_poll" =>
               /\ i < maxAttempts
               /\ i' = i + 1
               /\ status' \notin TerminalStatuses
     /\ (pc = "ap_dataset" /\ pc' = "orch_after") =>
          adapterResult' =
            Success(ApData(IF log'[Len(log')].content THEN "record"
                           ELSE "{}"))
     /\ pc = "ap_catch" =>
          /\ adapterResult' = Failure(exc)
          /\ pc' = "orch_after"
    ]_vars

\* maxAttempts polls found the run unfinished and the adapter is about to
\* fail with the timeout error
C22_Witness ==
  /\ pc = "ap_catch"
  /\ exc = "Apify scraping timeout"
  /\ status = ""
  /\ log = <<>>

\* C23: every remote call made during scrapeURL is bounded by a timeout
\* and a call that timed out is a failure like any other, so a call of
\* scrapeURL eventually returns or throws, whichever back-end it uses and
\* even when a back-end never answers a request.
C23_ScrapeURLEventuallyReturns == (pc # "idle") ~> (pc = "done")

\* C24: the classification of a URL depends on the URL alone, and the
\* recommended back-end is apify exactly when the URL is classified as
\* affiliate or as a complex platform, and firecrawl for every other
\* well-formed URL.
C24_RecommendedBackend ==
  (analysis.done /\ ~analysis.thrown) =>
    /\ analysis = analyzeURL(analysis.url)
    /\ analysis.recommendedService \in {"apify", "firecrawl"}
    /\ analysis.recommendedService = "apify"
         <=> (analysis.isAffiliate \/ analysis.isComplex)
    /\ analysis.isComplex
         <=> \E k \in 1..Len(complexPlatforms) :
               includes(analysis.domain, complexPlatforms[k])
    /\ analysis.isAffiliate
         <=> \/ \E k \in 1..Len(affiliateNetworks) :
                  includes(analysis.domain, affiliateNetworks[k])
             \/ \E k \in 1..Len(affiliateUrlMarkers) :
                  includes(analysis.url, affiliateUrlMarkers[k])

\* a URL of a plain host with the hop marker is classified as affiliate,
\* not as a complex platform, and is sent to apify
C24_Witness ==
  /\ analysis.done
  /\ ~analysis.thrown
  /\ analysis.domain = PlainHost
  /\ analysis.isAffiliate
  /\ ~analysis.isComplex
  /\ analysis.recommendedService = "apify"

\* the tag of a result that the back-end s produced as the fallback
FallbackTag(s) == IF s = "apify" THEN "apify-fallback" ELSE "firecrawl-fallback"

\* C25: the primary back-end of a call is the caller's choice when one is
\* given and the classifier's recommendation otherwise, and it is the
\* back-end tried first; the method of a successful result is the name of
\* the primary exactly when the primary succeeded and the name of the other
\* back-end followed by "-fallback" exactly when the primary failed and the
\* other back-end succeeded, so a fallback tag never names the primary.
C25_Provenance ==
  /\ (pc # "idle" /\ IsWellFormed(url)) =>
       /\ service = IF preferredService = "auto"
                    THEN recommendedService(url) ELSE preferredService
       /\ stage = "primary" =>
            \A k \in 1..Len(log) : log[k].backend = service
       /\ (log # <<>> /\ \E k \in 1..Len(log) : log[k].backend = service)
            => log[1].backend = service
  /\ (pc = "done" /\ outcome = "returned" /\ result.success) =>
       /\ result.method \in {service, FallbackTag(OtherService(service))}
       /\ result.method # FallbackTag(service)
       /\ result.method = service <=> stage = "primary"
       /\ result.method = FallbackTag(OtherService(service))
            <=> (stage = "fallback" /\ adapterResult.success)
       /\ stage = "primary" => adapterResult.success

\* the caller chose firecrawl for a URL the classifier sends to apify,
\* firecrawl failed and apify answered with a record
C25_Witness ==
  /\ pc = "done"
  /\ outcome = "returned"
  /\ url = UrlWix
  /\ preferredService = "firecrawl"
  /\ recommendedService(url) = "apify"
  /\ service = "firecrawl"
  /\ stage = "fallback"
  /\ result.success
  /\ result.method = "apify-fallback"

\* ------------------------------------------------------------------------
\* C26.  scrapeMultipleUrls scrapes the urls one at a time in input order:
\* the first scrape is that of the first url, every later scrape starts
\* only after the scrape of the url before it has ended and a delay of 1 s
\* (1000 ms of the clock) has passed since that end, a scrape is in flight
\* only between its start and its end, and the k-th result is the one
\* pushed by the scrape of the k-th url; what the call returns has one
\* result per url and a summary with successful + failed = total = the
\* number of urls.
\* ------------------------------------------------------------------------
ScrapeInFlight ==
  pc \in {"fc_start", "fc_attempt", "fc_retry_catch", "fc_after_loop",
          "fc_catch", "orch_after", "orch_catch"}

EndsOf(es) == SelectSeq(es, LAMBDA e : e.kind = "end")

C26_SequentialBatch ==
  /\ \A j \in 1..Len(events) :
       /\ events[j].kind = "start" =>
            IF events[j].n = 1
            THEN j = 1
            ELSE /\ j >= 3
                 /\ events[j-1].kind = "delay"
                 /\ events[j-2].kind = "end"
                 /\ events[j-2].n = events[j].n - 1
                 /\ events[j].at >= events[j-2].at + 1000
       /\ events[j].kind = "end" =>
            /\ j >= 2
            /\ events[j-1].kind = "start"
            /\ events[j-1].n = events[j].n
  /\ ScrapeInFlight =>
       /\ events # <<>>
       /\ events[Len(events)] .kind = "start"
       /\ events[Len(events)].n = position
       /\ position = Len(results) + 1
       /\ position <= Len(urls)
       /\ url = urls[position]
  /\ Len(EndsOf(events)) = Len(results)
  /\ \A k \in 1..Len(EndsOf(events)) : EndsOf(events)[k].n = k
  /\ batchReturn.done =>
       /\ batchReturn.results = results
       /\ Len(batchReturn.results) = Len(urls)
       /\ batchReturn.summary.total = Len(urls)
       /\ batchReturn.summary.successful + batchReturn.summary.failed
            = batchReturn.summary.total

\* a number of the interval [0, 1] (the doubles of the model are not
\* negative)
InUnitInterval(v) == v.type = "number" /\ ~DoubleGreater(v.num, One)

\* ------------------------------------------------------------------------
\* C27.  When analyzeContent returns the cleaned record of a payload that
\* a completion back-end answered, the record's completenessScore is a
\* number of [0, 1] and its confidenceLevel is one of high, medium, low.
\* ------------------------------------------------------------------------
C27_QualityInDomain ==
  (step = "done" /\ strategy \in {"openrouter", "perplexity"}) =>
    /\ InUnitInterval(productData.extractionQuality.completenessScore)
    /\ IncludesValue(validLevels, productData.extractionQuality.confidenceLevel)

GetAmazingResults == <<71,101,116,32,97,109,97,122,105,110,103,32,114,101,115,117,108,116,115,32,105,110,32,51,48,32,100,97,121,115>>  \* "Get amazing results in 30 days"

\* the scraped data of scenario A: the markdown alone
ScenarioA ==
  [json |-> NoJson, markdown |-> ScenarioPage, html |-> NoHtml]

\* ------------------------------------------------------------------------
\* C28.  For the markdown of scenario A the extractor of the scraper
\* yields the product name "Acme Widget", a main benefit that contains
\* "Get amazing results in 30 days", exactly one testimonial, exactly one
\* pricing entry and exactly one guarantee.
\* ------------------------------------------------------------------------
C28_ScenarioA ==
  (Analyzed /\ scrapedData = ScenarioA) =>
    LET d == analyzed.extractedData
    IN  /\ d.productName = AcmeWidget
        /\ includes(d.mainBenefit, GetAmazingResults)
        /\ Len(d.testimonials) = 1
        /\ Len(d.pricing) = 1
        /\ Len(d.guarantees) = 1

\* the stored keys a step removed
Evicted == MapKeys(cache) \ MapKeys(cache')

\* ------------------------------------------------------------------------
\* C29.  Whenever a put evicts an entry, the evicted entry is a stored entry
\* with the oldest timestamp: no entry that stays was stamped earlier.
\* This covers the put of a URL that is stored already, which renews the
\* entry's timestamp.
\* ------------------------------------------------------------------------
C29_EvictsOldestTimestamp ==
  [][nputs' # nputs =>
       \A k \in Evicted : \A other \in MapKeys(cache) :
         MapGet(cacheTimestamps, k) <= MapGet(cacheTimestamps, other)]_vars

\* the requests of the call in flight to Firecrawl that threw
FailedAttempts ==
  SelectSeq(log, LAMBDA e : e.backend = "firecrawl" /\ e.answer = "thrown")

\* ------------------------------------------------------------------------
\* C30.  Between two consecutive attempts of scrapeWebsite the retry loop
\* waits on a timer of 2^(attempt-1) seconds: 1000 ms after failed attempt
\* 1, 2000 ms after failed attempt 2.  A pass of the loop begins only at the
\* start of the loop or when such a timer fires; after the failed attempt 3
\* and after a successful attempt no timer is set, so a run of three failed
\* attempts has waited exactly twice.
\* ------------------------------------------------------------------------
C30_Backoff ==
  [][/\ (pc = "fc_retry_catch" /\ pc' # pc) =>
          IF attempt = 1 THEN pc' = "fc_backoff" /\ delay' = 1000
          ELSE IF attempt = 2 THEN pc' = "fc_backoff" /\ delay' = 2000
          ELSE /\ attempt = 3
               /\ pc' = "fc_after_loop"
               /\ delay' = 0
     /\ (pc' = "fc_backoff" /\ pc # pc') => pc = "fc_retry_catch"
     /\ (pc' = "fc_attempt" /\ pc # pc') =>
          \/ pc = "fc_start" /\ attempt' = 1
          \/ pc = "fc_backoff" /\ delay > 0 /\ attempt' = attempt + 1
     /\ (pc = "fc_attempt" /\ pc' # pc) =>
          /\ delay' = 0
          /\ pc' \in {"fc_retry_catch", "fc_after_loop"}
     /\ pc' = "fc_backoff" => Len(FailedAttempts') = attempt' /\ attempt' <= 2
    ]_vars

\* three attempts have failed and the loop has been left
C30_Witness ==
  /\ pc = "fc_after_loop"
  /\ attempt = 4
  /\ delay = 0
  /\ lastError # ""
  /\ Len(FailedAttempts) = 3

\* no entry of the array occurs twice
NoRepeats(a) == \A j, k \in 1..Len(a) : a[j] = a[k] => j = k

\* ------------------------------------------------------------------------
\* C31.  The lists that the heuristic collectors of ContentAnalyzer put into
\* the record of the fallback analysis are capped and de-duplicated: at
\* most 5 testimonials, at most 5 entries of social proof and at most 3
\* guarantees, and no entry twice.
\* ------------------------------------------------------------------------
C31_CollectorsCapped ==
  (step = "done" /\ strategy = "fallback") =>
    LET found == productData.perceivedLikelihood
    IN  /\ Len(found.testimonials.items) <= 5
        /\ Len(found.socialProofNumbers.items) <= 5
        /\ Len(found.guarantees.items) <= 3
        /\ NoRepeats(found.testimonials.items)
        /\ NoRepeats(found.socialProofNumbers.items)
        /\ NoRepeats(found.guarantees.items)

\* the entries of an array
Entries(a) == {a[j] : j \in 1..Len(a)}

\* the place where x occurs first in a
FirstAt(a, x) == CHOOSE j \in 1..Len(a) : a[j] = x /\ \A k \in 1..(j - 1) : a[k] # x

\* the caps of the merged arrays
MergeCap ==
  [headlines |-> 10, testimonials |-> 10, pricing |-> 5, benefits |-> 15,
   ctas |-> 8, guarantees |-> 5, timeframes |-> 5, socialProof |-> 5]

\* r lists the entries of p, then those of s that p does not hold, each
\* once and in their order, cut off after cap entries
IsStableUnion(r, p, s, cap) ==
  LET all == p \o s
  IN  /\ NoRepeats(r)
      /\ Entries(r) \subseteq Entries(all)
      /\ Len(r) = Min(cap, Cardinality(Entries(all)))
      /\ \A j, k \in 1..Len(r) :
           j < k => FirstAt(all, r[j]) < FirstAt(all, r[k])
      /\ \A x \in Entries(all) \ Entries(r) :
           \A j \in 1..Len(r) : FirstAt(all, r[j]) < FirstAt(all, x)

\* ------------------------------------------------------------------------
\* C32.  Every array of the record mergeExtractedData returns lists the
\* primary's entries first, in their order, then the secondary's entries
\* that the primary does not hold, without a repeat and cut off at the cap
\* of the array (headlines 10, testimonials 10, pricing 5, benefits 15,
\* ctas 8, guarantees 5, timeframes 5, socialProof 5); with an empty
\* secondary, a primary array without repeats and within the cap is
\* returned as it is.
\* ------------------------------------------------------------------------
C32_MergeOrderStable ==
  merged.done =>
    \A f \in ArrayFields :
      LET p == mergePrimary[f]
          s == ArrayOf(mergeSecondary, f)
          r == merged.data[f]
      IN  /\ IsStableUnion(r, p, s, MergeCap[f])
          /\ (s = <<>> /\ NoRepeats(p) /\ Len(p) <= MergeCap[f]) => r = p

\* entries of the secondary were appended to those of the primary and the
\* list of benefits was cut off at its cap
C32_Witness ==
  /\ merged.done
  /\ mergePrimary.benefits = ItemsFrom(11, 12)
  /\ ArrayOf(mergeSecondary, "benefits") = ItemsFrom(1, 16)
  /\ merged.data.benefits = ItemsFrom(11, 12) \o ItemsFrom(1, 3)
  /\ Len(merged.data.pricing) = 5

\* a product name other than the empty text and the placeholder
NamePresent(data) ==
  data.productName # <<>> /\ data.productName # UnknownProduct

\* the number of required fields of the data that are present
RequiredPresent(data) ==
  (IF NamePresent(data) THEN 1 ELSE 0)
  + Cardinality({f \in {"headlines", "benefits", "ctas"} : data[f] # <<>>})

\* the number of optional fields of the data that are not empty
OptionalPresent(data) ==
  Cardinality({f \in {"testimonials", "pricing", "guarantees", "socialProof",
                      "timeframes"} : data[f] # <<>>})

\* ------------------------------------------------------------------------
\* C33.  The completeness score is (2 x the required fields present + the
\* optional fields not empty) / 13: it lies in [0, 1], is 0 exactly when no
\* field is present and 1 exactly when all nine are, and a product name
\* that is the placeholder counts as absent.
\* ------------------------------------------------------------------------
C33_CompletenessScore ==
  measured.scored =>
    LET score == measured.completenessScore
        required == RequiredPresent(extractedData)
        optional == OptionalPresent(extractedData)
    IN  /\ score.den > 0
        /\ score.num * 13 = (2 * required + optional) * score.den
        /\ 0 <= score.num /\ score.num <= score.den
        /\ score.num = 0 <=> (required = 0 /\ optional = 0)
        /\ score.num = score.den <=> (required = 4 /\ optional = 5)

\* every array holds an entry and the product name is the placeholder: the
\* score is 11/13
C33_Witness ==
  /\ measured.scored
  /\ extractedData.productName = UnknownProduct
  /\ \A f \in ArrayFields : extractedData[f] # <<>>
  /\ measured.completenessScore = [num |-> 11, den |-> 13]

\* the names under which the fields are reported missing
MissingNames ==
  [productName |-> "Product Name", headlines |-> "Headlines",
   benefits |-> "Benefits", ctas |-> "Call-to-Actions",
   testimonials |-> "Testimonials", pricing |-> "Pricing Information",
   guarantees |-> "Guarantees"]

Listed(name) ==
  \E j \in 1..Len(measured.missingFields) : measured.missingFields[j] = name

\* ------------------------------------------------------------------------
\* C34.  missingFields lists Product Name, Headlines, Benefits and
\* Call-to-Actions exactly when the field is the placeholder or empty,
\* whether the page is an affiliate page or not; it lists Testimonials,
\* Pricing Information and Guarantees exactly when the page is an affiliate
\* page and the array is empty.
\* ------------------------------------------------------------------------
C34_MissingFields ==
  measured.listed =>
    /\ Listed("Product Name") <=> ~NamePresent(extractedData)
    /\ \A f \in {"headlines", "benefits", "ctas"} :
         Listed(MissingNames[f]) <=> extractedData[f] = <<>>
    /\ \A f \in {"testimonials", "pricing", "guarantees"} :
         Listed(MissingNames[f]) <=>
           (affiliatePage /\ extractedData[f] = <<>>)

\* a page that is not an affiliate page, without testimonials, prices and
\* guarantees, of which only the product name is reported missing
C34_Witness ==
  /\ measured.listed
  /\ ~affiliatePage
  /\ extractedData.testimonials = <<>>
  /\ extractedData.pricing = <<>>
  /\ extractedData.guarantees = <<>>
  /\ measured.missingFields = <<"Product Name">>

\* the entry of the lookup just made is stored and older than the TTL
FoundExpired ==
  /\ got.valid
  /\ MapHas(cache, getCacheKey(got.url))
  /\ got.at - MapGet(cacheTimestamps, getCacheKey(got.url)) >= CACHE_TTL

KeysOnce(m) == Cardinality(MapKeys(m)) = Len(m)

C35_SameKeysBounded ==
  /\ MapKeys(cache) = MapKeys(cacheTimestamps)
  /\ Len(cache) = Len(cacheTimestamps)
  /\ KeysOnce(cache)
  /\ KeysOnce(cacheTimestamps)
  /\ Len(cache) <= 100

\* two calls that both missed the cache have written it, the second write
\* into a full cache, and the cache holds 100 entries
C35_Witness ==
  /\ \A c \in CallIds : calls[c].pc = "done" /\ calls[c].missed
  /\ Len(cache) = 100
  /\ \E j, k \in 1..Len(cacheLog) :
       /\ j < k
       /\ cacheLog[j].kind = "write"
       /\ cacheLog[k].kind = "write"
       /\ cacheLog[j].call # cacheLog[k].call
       /\ cacheLog[k].evicted # {}

\* ------------------------------------------------------------------------
\* C37: concurrent calls of scrapeWebsite for one uncached URL are not
\* coalesced.  Every call whose lookup found nothing sends its own request
\* to Firecrawl, whatever the other calls do; and once all calls have
\* returned, a key that a call wrote, and that no clearCache and no
\* eviction removed afterwards, has exactly one entry in the cache, the
\* result of the call that wrote it last.
\* ------------------------------------------------------------------------
WritesOf(key) ==
  {j \in 1..Len(cacheLog) : cacheLog[j].kind = "write" /\ cacheLog[j].key = key}

LastWriteOf(key) ==
  CHOOSE j \in WritesOf(key) : \A k \in WritesOf(key) : k <= j

RemovedAfter(key, j) ==
  \E k \in (j + 1)..Len(cacheLog) :
    \/ cacheLog[k].kind = "clear"
    \/ key \in cacheLog[k].evicted

EntriesOf(key) == {j \in 1..Len(cache) : cache[j].key = key}

AllReturned == \A c \in CallIds : calls[c].pc = "done"

C37_NotCoalesced ==
  /\ \A c \in CallIds :
       (calls[c].pc = "done" /\ calls[c].missed /\ IsWellFormed(calls[c].url))
         => calls[c].requests >= 1
  /\ \A c \in CallIds :
       (calls[c].pc = "done" /\ ~calls[c].missed) => calls[c].requests = 0
  /\ AllReturned =>
       \A u \in CallUrls :
         LET key == getCacheKey(u)
         IN  (WritesOf(key) # {} /\ ~RemovedAfter(key, LastWriteOf(key)))
               => /\ Cardinality(EntriesOf(key)) = 1
                  /\ MapGet(cache, key) = cacheLog[LastWriteOf(key)].result

\* two calls for one key both missed, both sent a request and both wrote,
\* with different results; the cache holds the later one
C37_Witness ==
  /\ AllReturned
  /\ getCacheKey(calls[1].url) = getCacheKey(calls[2].url)
  /\ \A c \in CallIds : calls[c].missed /\ calls[c].requests >= 1
  /\ LET key == getCacheKey(calls[1].url)
     IN  /\ Cardinality(WritesOf(key)) = 2
         /\ \E j, k \in WritesOf(key) :
              /\ j < k
              /\ cacheLog[j].call # cacheLog[k].call
              /\ cacheLog[j].result # cacheLog[k].result
              /\ ~RemovedAfter(key, k)
              /\ MapGet(cache, key) = cacheLog[k].result

\* ------------------------------------------------------------------------
\* C38: the classifier of the orchestrator and the classifier of the
\* Firecrawl adapter agree.  Whenever analyzeURL of IntelligentScraper finds
\* a URL neither affiliate nor complex and scrapeURL routes it to Firecrawl,
\* scrapeWebsite scrapes it with the regular profile, and the
\* isAffiliatePage it reports equals the isAffiliate of the orchestrator.
\* ------------------------------------------------------------------------
RoutedToFast ==
  /\ url # <<>>
  /\ IsWellFormed(url)
  /\ preferredService = "auto"
  /\ service = "firecrawl"
  /\ ~isAffiliate(url)
  /\ ~isComplex(url)

C38_ClassifiersAgree ==
  RoutedToFast =>
    /\ \A j \in 1..Len(log) :
         log[j].backend = "firecrawl" => log[j].profile = "regular"
    /\ (pc = "orch_after" /\ adapterResult.success /\ HasContent(adapterResult.data))
         => adapterResult.data.isAffiliatePage = isAffiliate(url)
====
